---- MODULE Spec2Model ----
(***************************************************************************)
(* Memory-management core of gsai_os: the physical frame allocator         *)
(* (kernel/src/memory/frame_allocator.rs) and the block allocator, the     *)
(* kernel heap (kernel/src/block_malloc.rs), with the older block          *)
(* allocator of libkernel (libkernel/src/memory/block_allocator.rs).       *)
(*                                                                         *)
(* A u64 section of a BlockPage is modelled as the set of its set bit      *)
(* positions (a subset of 0..63): `x & m` is intersection, `x | m` union,  *)
(* `x ^ m` symmetric difference, `x > 0` non-emptiness, `x == u64::MAX`    *)
(* equality with 0..63.                                                    *)
(*                                                                         *)
(* A usize counter is modelled by its two's-complement representative:     *)
(* the integer v stands for v mod 2^64, so 0 - 4096 wraps to -4096, which  *)
(* stands for 2^64 - 4096.                                                 *)
(***************************************************************************)
EXTENDS Integers, Sequences, FiniteSets, TLC

(* ------------------------------ bounds --------------------------------- *)

\* Number of physical frames the boot memory map describes.
NumFrames == 6

\* Most allocations the callers of the heap hold at once.
MaxLive == 2

\* Most calls in one run of the model.
MaxCalls == 4

(* ------------------------- program constants --------------------------- *)

FRAME_SIZE == 4096

SECTION_COUNT == 4

SECTION_LEN == 64

BLOCK_COUNT == SECTION_COUNT * SECTION_LEN

BLOCK_SIZE == 16

MINIMUM_ALIGNMENT == 16

BLOCKS_PER_MAP_PAGE == 8 * FRAME_SIZE

\* size_of::<BlockPage>(): four u64 sections, repr(C).
BLOCK_PAGE_BYTES == SECTION_COUNT * 8

(* ------------------------------ helpers -------------------------------- *)

Min(a, b) == IF a < b THEN a ELSE b

\* The iterations of a loop evaluated in one recursion (see the search of alloc).
ScanGroup == 8

align_up_div(value, alignment) == (value + (alignment - 1)) \div alignment

align_down_div(value, alignment) == value \div alignment

\* next_power_of_two without the rounding: the number itself.
next_power_of_two_exact(n) == n

RECURSIVE next_power_of_two_from(_, _)
next_power_of_two_from(p, n) == IF p >= n THEN p ELSE next_power_of_two_from(2 * p, n)

next_power_of_two(n) == next_power_of_two_from(1, n)

\* Unsigned comparison of two usize values given by their representatives.
UsizeLt(a, b) ==
    \/ a >= 0 /\ b >= 0 /\ a < b
    \/ a >= 0 /\ b < 0
    \/ a < 0 /\ b < 0 /\ a < b

\* a - b on usize leaves the range exactly when a < b (unsigned).
SubOverflows(a, b) == UsizeLt(a, b)

\* a + b on usize (b a small positive number) leaves the range exactly when
\* the sum passes 2^64, i.e. the representative passes from negative to >= 0.
AddOverflows(a, b) == a < 0 /\ a + b >= 0

\* Arithmetic overflow panics when the build has overflow checks (cargo's dev
\* profile) and wraps when it has not (cargo's release profile).
overflow_checks(profile) == profile = "debug"

\* debug_assert! and debug_assert_eq! are compiled in only with debug assertions.
debug_assertions(profile) == profile = "debug"

Panic(s, message) == [s EXCEPT !.panic = message]

Running(s) == s.panic = ""

(* --------------------------- frame allocator --------------------------- *)

FrameType == {"Unallocated", "Allocated", "Reserved", "Corrupted"}

Frames == 0 .. (NumFrames - 1)

FrameAllocatorMemory_new(total_memory) ==
    [total_memory |-> total_memory, free_memory |-> total_memory,
     used_memory |-> 0, reserved_memory |-> 0]

\* BitArray::set_eq(index, new, expected): writes `new` when the element is
\* `expected` and says whether it did.
set_eq_ok(s, index, expected) == s.memory_map[index] = expected

set_eq(s, index, new) == [s EXCEPT !.memory_map[index] = new]

\* `counter += 0x1000` / `counter -= 0x1000` on one field of the counters.
\* field is the counter's name; the result is the state, panicked on overflow
\* when the build checks it.
counter_add(s, field, n) ==
    IF AddOverflows(s.memory[field], n) /\ overflow_checks(s.profile)
    THEN Panic(s, "attempt to add with overflow")
    ELSE [s EXCEPT !.memory[field] = s.memory[field] + n]

\* counter_sub with the update left out.
counter_sub_skipped(s, field, n) == s

counter_sub(s, field, n) ==
    IF SubOverflows(s.memory[field], n) /\ overflow_checks(s.profile)
    THEN Panic(s, "attempt to subtract with overflow")
    ELSE [s EXCEPT !.memory[field] = s.memory[field] - n]

\* Two counter updates in program order: the second runs only if the first
\* did not panic.
Then(s, field, n, sub) ==
    IF ~Running(s) THEN s
    ELSE IF sub THEN counter_sub(s, field, n) ELSE counter_add(s, field, n)

\* free_frame without the comparison: the frame is set and the counters move
\* whatever the frame's state was.
free_frame_unchecked(s, frame) ==
    Then(Then(set_eq(s, frame, "Unallocated"), "free_memory", FRAME_SIZE, FALSE),
         "used_memory", FRAME_SIZE, TRUE)

free_frame(s, frame) ==
    IF set_eq_ok(s, frame, "Allocated")
    THEN Then(Then(set_eq(s, frame, "Unallocated"), "free_memory", FRAME_SIZE, FALSE),
              "used_memory", FRAME_SIZE, TRUE)
    ELSE Panic(s, "attempted to reserve a non-free frame")

lock_frame(s, frame) ==
    IF set_eq_ok(s, frame, "Unallocated")
    THEN Then(Then(set_eq(s, frame, "Allocated"), "free_memory", FRAME_SIZE, TRUE),
              "used_memory", FRAME_SIZE, FALSE)
    ELSE Panic(s, "attempted to reserve a non-free frame")

reserve_frame(s, frame) ==
    IF set_eq_ok(s, frame, "Unallocated")
    THEN Then(Then(set_eq(s, frame, "Reserved"), "free_memory", FRAME_SIZE, TRUE),
              "reserved_memory", FRAME_SIZE, FALSE)
    ELSE Panic(s, "attempted to reserve a non-free frame")

\* The frames lock_next can take: it scans from index 0 and takes the first
\* Unallocated one.  It touches no counter.
UnallocatedFrames(s) == {i \in DOMAIN s.memory_map : s.memory_map[i] = "Unallocated"}

lock_next_some(s) == UnallocatedFrames(s) # {}

\* lock_next scanning from the last index down: the highest Unallocated frame.
lock_next_frame_last(s) ==
    CHOOSE i \in UnallocatedFrames(s) : \A j \in UnallocatedFrames(s) : i >= j

lock_next_frame(s) == CHOOSE i \in UnallocatedFrames(s) : \A j \in UnallocatedFrames(s) : i <= j

lock_next(s) == IF lock_next_some(s) THEN set_eq(s, lock_next_frame(s), "Allocated") ELSE s

(* ---------------------------- lock_next_count -------------------------- *)

\* core::cmp::min on usize.
usize_min(a, b) == IF UsizeLt(a, b) THEN a ELSE b

\* Option<FrameIterator>: None, and Some(Frame::range_inclusive(low..high))
\* given by the indexes of the two frames whose addresses bound the range.
None == << >>

Some(low_index, high_index) == <<low_index, high_index>>

\* A caller's position in lock_next_count(count).  pc is "idle" outside a
\* call, "done" when the call has returned ret, and otherwise names the loop
\* the caller is in: "outer" (for mut index in 0..len), "inner" (for
\* inner_index in (index + 1)..high_bound), "check" (the if after the inner
\* loop) and "mark" (for inner_index in index..high_index).  next is the
\* position of the outer range: assigning to index inside the body does not
\* move it.
Caller_idle ==
    [pc |-> "idle", count |-> 0, next |-> 0, index |-> 0, inner_index |-> 0,
     high_bound |-> 0, high_index |-> 0, all_unallocated |-> FALSE, ret |-> None]

lock_next_count_enter(count) == [Caller_idle EXCEPT !.pc = "outer", !.count = count]

lock_next_count_return(t, ret) == [Caller_idle EXCEPT !.pc = "done", !.count = t.count, !.ret = ret]

\* One step of a caller of lock_next_count: at most one access to the frame
\* states (one memory_map.get or one memory_map.set), with the computation
\* that follows it.  The function takes no lock.
lock_next_count_step(s, t) ==
    IF t.pc = "outer"
    THEN IF t.next >= Cardinality(DOMAIN s.memory_map)
         THEN [s |-> s, t |-> lock_next_count_return(t, None)]
         ELSE IF s.memory_map[t.next] # "Unallocated"
         THEN [s |-> s, t |-> [t EXCEPT !.next = @ + 1]]
         ELSE IF AddOverflows(t.count, t.next) /\ overflow_checks(s.profile)
         THEN [s |-> Panic(s, "attempt to add with overflow"), t |-> t]
         ELSE [s |-> s,
               t |-> [t EXCEPT !.pc = "inner", !.index = t.next, !.next = @ + 1,
                               !.all_unallocated = TRUE,
                               !.high_bound = usize_min(t.next + t.count,
                                                        Cardinality(DOMAIN s.memory_map)),
                               !.inner_index = t.next + 1]]
    ELSE IF t.pc = "inner"
    THEN IF t.inner_index < t.high_bound
         THEN IF s.memory_map[t.inner_index] # "Unallocated"
              THEN [s |-> s,
                    t |-> [t EXCEPT !.pc = "check", !.all_unallocated = FALSE,
                                    !.index = t.inner_index + 1]]
              ELSE [s |-> s, t |-> [t EXCEPT !.inner_index = @ + 1]]
         ELSE [s |-> s, t |-> [t EXCEPT !.pc = "check"]]
    ELSE IF t.pc = "check"
    THEN IF t.all_unallocated /\ ~UsizeLt(t.index, t.index + t.count)
         THEN [s |-> s,
               t |-> [t EXCEPT !.pc = "mark", !.high_index = t.index + t.count,
                               !.inner_index = t.index]]
         ELSE [s |-> s, t |-> [t EXCEPT !.pc = "outer"]]
    ELSE IF UsizeLt(t.inner_index, t.high_index)
    THEN IF t.inner_index \notin DOMAIN s.memory_map
         THEN [s |-> Panic(s, "index out of bounds"), t |-> t]
         ELSE [s |-> set_eq(s, t.inner_index, "Allocated"),
               t |-> [t EXCEPT !.inner_index = @ + 1]]
    ELSE [s |-> s, t |-> lock_next_count_return(t, Some(t.index, t.high_index))]

\* The call run to its end with no other caller in between.
RECURSIVE lock_next_count_run(_, _)
lock_next_count_run(s, t) ==
    IF t.pc = "done" \/ ~Running(s) THEN [s |-> s, ret |-> t.ret]
    ELSE LET Stepped(r) == lock_next_count_run(r.s, r.t)
         IN  Stepped(lock_next_count_step(s, t))

\* A frame taken as lock_next takes it, and None returned.
lock_next_count_taking(s, count) == [s |-> lock_next(s), ret |-> None]

\* FrameAllocator::lock_next_count(count): the state it leaves and what it
\* returns.
lock_next_count(s, count) == lock_next_count_run(s, lock_next_count_enter(count))

(* ------------------------------ BlockPage ------------------------------ *)

Sections == 0 .. (SECTION_COUNT - 1)

\* u64::MAX: every bit of a section set.
U64_MAX == 0 .. (SECTION_LEN - 1)

BlockPage_empty == [section \in Sections |-> {}]

is_empty(block_page) == \A section \in Sections : block_page[section] = {}

is_full(block_page) == \A section \in Sections : block_page[section] = U64_MAX

set_full(block_page) == [section \in Sections |-> U64_MAX]

set_empty(block_page) == [section \in Sections |-> {}]

(* ----------------------------- SectionState ---------------------------- *)

SectionState_empty == [had_bits |-> FALSE, has_bits |-> FALSE]

SectionState_is_empty(state) == ~state.had_bits /\ ~state.has_bits

is_alloc(state) == ~state.had_bits /\ state.has_bits

is_dealloc(state) == state.had_bits /\ ~state.has_bits

\* should_alloc without the `|| state.is_empty()`: every section must be newly
\* marked.
should_alloc_all(page_state) == \A i \in Sections : is_alloc(page_state[i])

\* should_dealloc without the `.all(..)`: one section emptied is enough.
should_dealloc_any(page_state) == \E i \in Sections : is_dealloc(page_state[i])

should_alloc(page_state) ==
    /\ \E i \in Sections : is_alloc(page_state[i])
    /\ \A i \in Sections : is_alloc(page_state[i]) \/ SectionState_is_empty(page_state[i])

should_dealloc(page_state) ==
    /\ \E i \in Sections : is_dealloc(page_state[i])
    /\ \A i \in Sections : is_dealloc(page_state[i]) \/ SectionState_is_empty(page_state[i])

(* -------------------------- virtual addressor -------------------------- *)

\* The addressor's page table, restricted to the heap's pages: a function
\* from the index of a mapped page to the frame it is mapped to.
addressor_map(s, page, frame) == [s EXCEPT !.addressor = (page :> frame) @@ @]

addressor_unmap(s, page) ==
    [s EXCEPT !.addressor = [p \in (DOMAIN @) \ {page} |-> @[p]]]

addressor_is_mapped(s, page) == page \in DOMAIN s.addressor

translate_page(s, page) == s.addressor[page]

\* The same page table at ALLOCATOR_BASE.offset(offset): the pages that hold
\* the BlockPage map itself.
addressor_map_meta(s, offset, frame) == [s EXCEPT !.meta = (offset :> frame) @@ @]

\* Page::clear(): zeroes the memory behind a mapped page.
page_clear(s, page) == [s EXCEPT !.content[translate_page(s, page)] = "zero"]

UnwrapNone == "called Option::unwrap() on a None value"

(* --------------------------------- grow -------------------------------- *)

RECURSIVE grow_map_pages(_, _, _)
grow_map_pages(s, offset, new_page_offset) ==
    IF offset >= new_page_offset THEN s
    ELSE IF ~lock_next_some(s) THEN Panic(s, UnwrapNone)
    ELSE grow_map_pages(addressor_map_meta(lock_next(s), offset, lock_next_frame(s)),
                        offset + 1, new_page_offset)

\* grow with `map_write[..].fill(BlockPage::empty())`: the whole map is
\* filled, not only the part past cur_map_len.
grow_refilled(s, required_blocks) ==
    IF ~(required_blocks > 0) THEN Panic(s, "calls to grow must be nonzero")
    ELSE
    LET cur_map_len == Len(s.map)
        cur_page_offset == (cur_map_len * BLOCK_COUNT) \div BLOCKS_PER_MAP_PAGE
        new_page_offset ==
            next_power_of_two(cur_page_offset
                              + align_up_div(required_blocks, BLOCKS_PER_MAP_PAGE))
        new_map_len == new_page_offset * (FRAME_SIZE \div BLOCK_PAGE_BYTES)
        Mapped(mapped) ==
            IF ~Running(mapped) THEN mapped
            ELSE [mapped EXCEPT !.map = [i \in 1 .. new_map_len |-> BlockPage_empty]]
    IN  Mapped(grow_map_pages(s, cur_page_offset, new_page_offset))

\* grow that maps no page and leaves the map at its length.
grow_in_place(s, required_blocks) == s

grow(s, required_blocks) ==
    IF ~(required_blocks > 0) THEN Panic(s, "calls to grow must be nonzero")
    ELSE
    LET cur_map_len == Len(s.map)
        cur_page_offset == (cur_map_len * BLOCK_COUNT) \div BLOCKS_PER_MAP_PAGE
        new_page_offset ==
            next_power_of_two(cur_page_offset
                              + align_up_div(required_blocks, BLOCKS_PER_MAP_PAGE))
        new_map_len == new_page_offset * (FRAME_SIZE \div BLOCK_PAGE_BYTES)
        Mapped(mapped) ==
            IF ~Running(mapped) THEN mapped
            ELSE [mapped EXCEPT !.map =
                    [i \in 1 .. new_map_len |->
                        IF i <= cur_map_len THEN s.map[i] ELSE BlockPage_empty]]
    IN  Mapped(grow_map_pages(s, cur_page_offset, new_page_offset))

(* ------------------------- alloc: the search --------------------------- *)

\* for bit in (0..64).map(|shift| (section & (1 << shift)) > 0) { ... }, the
\* iterations shift .. stop - 1.  The loops of the search are unrolled in
\* groups (ScanGroup bits of a section, ScanGroup pages of the map) so that no
\* recursion is deeper than a group; the order of the iterations is the loop's.
RECURSIVE alloc_scan_bits(_, _, _, _, _, _, _)
alloc_scan_bits(section, shift, stop, block_index, current_run, size_in_blocks, alignment) ==
    IF shift >= stop
    THEN [block_index |-> block_index, current_run |-> current_run, found |-> FALSE]
    ELSE
    LET bit == shift \in section
        run == IF bit THEN 0
               ELSE IF current_run > 0 \/ (block_index % alignment) = 0
                    THEN current_run + 1
                    ELSE current_run
    IN  IF run = size_in_blocks
        THEN [block_index |-> block_index + 1, current_run |-> run, found |-> TRUE]
        ELSE alloc_scan_bits(section, shift + 1, stop, block_index + 1, run,
                             size_in_blocks, alignment)

RECURSIVE alloc_scan_section(_, _, _, _, _, _)
alloc_scan_section(section, shift, block_index, current_run, size_in_blocks, alignment) ==
    IF shift >= SECTION_LEN
    THEN [block_index |-> block_index, current_run |-> current_run, found |-> FALSE]
    ELSE
    LET Rest(r) ==
            IF r.found THEN r
            ELSE alloc_scan_section(section, shift + ScanGroup, r.block_index,
                                    r.current_run, size_in_blocks, alignment)
    IN  Rest(alloc_scan_bits(section, shift, Min(shift + ScanGroup, SECTION_LEN),
                             block_index, current_run, size_in_blocks, alignment))

\* for section in block_page.iter() { ... }
RECURSIVE alloc_scan_sections(_, _, _, _, _, _)
alloc_scan_sections(block_page, section_index, block_index, current_run, size_in_blocks, alignment) ==
    IF section_index = SECTION_COUNT
    THEN [block_index |-> block_index, current_run |-> current_run, found |-> FALSE]
    ELSE IF block_page[section_index] = U64_MAX
    THEN alloc_scan_sections(block_page, section_index + 1, block_index + SECTION_LEN, 0,
                             size_in_blocks, alignment)
    ELSE
    LET Rest(r) ==
            IF r.found THEN r
            ELSE alloc_scan_sections(block_page, section_index + 1, r.block_index,
                                     r.current_run, size_in_blocks, alignment)
    IN  Rest(alloc_scan_section(block_page[section_index], 0, block_index, current_run,
                                size_in_blocks, alignment))

\* 'outer: for block_page in self.map.read().iter() { ... }, the pages i .. stop.
RECURSIVE alloc_scan_pages(_, _, _, _, _, _, _)
alloc_scan_pages(map, i, stop, block_index, current_run, size_in_blocks, alignment) ==
    IF i > stop
    THEN [block_index |-> block_index, current_run |-> current_run, found |-> FALSE]
    ELSE IF is_full(map[i])
    THEN alloc_scan_pages(map, i + 1, stop, block_index + BLOCK_COUNT, 0,
                          size_in_blocks, alignment)
    ELSE
    LET Rest(r) ==
            IF r.found THEN r
            ELSE alloc_scan_pages(map, i + 1, stop, r.block_index, r.current_run,
                                  size_in_blocks, alignment)
    IN  Rest(alloc_scan_sections(map[i], 0, block_index, current_run,
                                 size_in_blocks, alignment))

RECURSIVE alloc_scan_map(_, _, _, _, _, _)
alloc_scan_map(map, i, block_index, current_run, size_in_blocks, alignment) ==
    IF i > Len(map)
    THEN [block_index |-> block_index, current_run |-> current_run, found |-> FALSE]
    ELSE
    LET Rest(r) ==
            IF r.found THEN r
            ELSE alloc_scan_map(map, i + ScanGroup, r.block_index, r.current_run,
                                size_in_blocks, alignment)
    IN  Rest(alloc_scan_pages(map, i, Min(i + ScanGroup - 1, Len(map)),
                              block_index, current_run, size_in_blocks, alignment))

\* One pass of the search over the whole map, from block_index = 0, current_run = 0.
alloc_scan(map, size_in_blocks, alignment) ==
    alloc_scan_map(map, 1, 0, 0, size_in_blocks, alignment)

\* while { search; current_run < size_in_blocks } { self.grow(size_in_blocks); }
RECURSIVE alloc_search(_, _, _)
alloc_search(s, size_in_blocks, alignment) ==
    LET Grown(grown) ==
            IF Running(grown)
            THEN alloc_search(grown, size_in_blocks, alignment)
            ELSE [s |-> grown, block_index |-> 0, current_run |-> 0]
        Searched(r) ==
            IF r.current_run < size_in_blocks
            THEN Grown(grow(s, size_in_blocks))
            ELSE [s |-> s, block_index |-> r.block_index, current_run |-> r.current_run]
    IN  Searched(alloc_scan(s.map, size_in_blocks, alignment))

(* ------------------- alloc and dealloc: the bit fields ----------------- *)

\* libkernel::U64_BIT_MASKS[index]: the low index + 1 bits.
U64_BIT_MASKS(index) == 0 .. index

\* mask << shift on a u64: bits shifted past bit 63 are lost.
shl(mask, shift) == {bit + shift : bit \in mask} \cap U64_MAX

calculate_bit_fields(map_index, section_index, end_block_index, block_index) ==
    LET traversed_blocks == (map_index * BLOCK_COUNT) + (section_index * SECTION_LEN)
        remaining_blocks == end_block_index - traversed_blocks
        bit_offset == block_index - traversed_blocks
        bit_count == Min(SECTION_LEN, remaining_blocks) - bit_offset
    IN  [bit_count |-> bit_count,
         bit_mask |-> shl(U64_BIT_MASKS(bit_count - 1), bit_offset)]

(* ------------------------- alloc: the marking -------------------------- *)

AllocAssert == "attempting to allocate blocks that are already allocated"

\* for (section_index, section) in block_page.iter_mut().enumerate() { ... }
RECURSIVE alloc_sections(_, _, _, _, _, _, _)
alloc_sections(block_page, map_index, section_index, block_index, initial_section_skip, end_block_index, page_state) ==
    IF section_index = SECTION_COUNT
    THEN [block_page |-> block_page, block_index |-> block_index,
          initial_section_skip |-> initial_section_skip,
          page_state |-> page_state, panic |-> ""]
    ELSE
    LET section == block_page[section_index]
        had_bits == section # {}
    IN  IF initial_section_skip > 0
        THEN alloc_sections(block_page, map_index, section_index + 1, block_index,
                            initial_section_skip - 1, end_block_index,
                            [page_state EXCEPT ![section_index] =
                                [had_bits |-> had_bits, has_bits |-> section # {}]])
        ELSE IF block_index < end_block_index
        THEN LET fields == calculate_bit_fields(map_index, section_index,
                                                end_block_index, block_index)
                 marked == section \cup fields.bit_mask
             IN  IF section \cap fields.bit_mask # {}
                 THEN [block_page |-> block_page, block_index |-> block_index,
                       initial_section_skip |-> initial_section_skip,
                       page_state |-> page_state, panic |-> AllocAssert]
                 ELSE alloc_sections([block_page EXCEPT ![section_index] = marked],
                                     map_index, section_index + 1,
                                     block_index + fields.bit_count,
                                     initial_section_skip, end_block_index,
                                     [page_state EXCEPT ![section_index] =
                                        [had_bits |-> had_bits, has_bits |-> marked # {}]])
        ELSE alloc_sections(block_page, map_index, section_index + 1, block_index,
                            initial_section_skip, end_block_index,
                            [page_state EXCEPT ![section_index] =
                                [had_bits |-> had_bits, has_bits |-> section # {}]])

\* if SectionState::should_alloc(&page_state) { map(page, lock_next().unwrap()); page.clear() }
alloc_back_page(s, map_index) ==
    IF ~lock_next_some(s) THEN Panic(s, UnwrapNone)
    ELSE page_clear(addressor_map(lock_next(s), map_index, lock_next_frame(s)), map_index)

\* for (map_index, block_page) in map.iter_mut().enumerate().skip(..).take(..) { ... }
RECURSIVE alloc_pages(_, _, _, _, _, _)
alloc_pages(s, map_index, take, block_index, initial_section_skip, end_block_index) ==
    IF take <= 0 \/ map_index >= Len(s.map) THEN s
    ELSE
    LET Backed(backed, r) ==
            IF ~Running(backed) THEN backed
            ELSE alloc_pages(backed, map_index + 1, take - 1, r.block_index,
                             r.initial_section_skip, end_block_index)
        Written(written, r) ==
            IF r.panic # "" THEN Panic(written, r.panic)
            ELSE Backed(IF should_alloc(r.page_state)
                        THEN alloc_back_page(written, map_index)
                        ELSE written,
                        r)
        Walked(r) == Written([s EXCEPT !.map[map_index + 1] = r.block_page], r)
    IN  Walked(alloc_sections(s.map[map_index + 1], map_index, 0, block_index,
                              initial_section_skip, end_block_index,
                              [i \in Sections |-> SectionState_empty]))

\* The layout's alignment taken as it is.
alloc_alignment_unchecked(layout_align) == layout_align

\* The alignment alloc searches with.
alloc_alignment(layout_align) ==
    IF layout_align % MINIMUM_ALIGNMENT = 0 THEN layout_align ELSE MINIMUM_ALIGNMENT

\* BlockAllocator::alloc(layout): the state it leaves and the pointer it
\* returns (meaningless when it panicked).
\* The part of alloc after its loop: the blocks of the run are marked under
\* self.map.write() and the pointer is returned.
alloc_mark(s, block_index, current_run) ==
    LET start_block_index == block_index - current_run
        end_block_index == block_index
        start_map_index == start_block_index \div BLOCK_COUNT
    IN  [s |-> alloc_pages(s, start_map_index,
                           align_up_div(end_block_index, BLOCK_COUNT) - start_map_index,
                           start_block_index,
                           align_down_div(start_block_index, SECTION_LEN)
                               - (start_map_index * SECTION_COUNT),
                           end_block_index),
         ptr |-> start_block_index * BLOCK_SIZE]

alloc(s, layout_size, layout_align) ==
    LET size_in_blocks == (layout_size + (BLOCK_SIZE - 1)) \div BLOCK_SIZE
        alignment == alloc_alignment(layout_align)
        Found(found) ==
            IF ~Running(found.s) THEN [s |-> found.s, ptr |-> 0]
            ELSE alloc_mark(found.s, found.block_index, found.current_run)
    IN  Found(alloc_search(s, size_in_blocks, alignment))

(* ------------------------------- dealloc ------------------------------- *)

DeallocAssert == "attempting to deallocate blocks that are already deallocated"

\* for (section_index, section) in block_page.iter_mut().enumerate() { ... }
RECURSIVE dealloc_sections(_, _, _, _, _, _, _)
dealloc_sections(block_page, map_index, section_index, block_index, initial_section_skip, end_block_index, page_state) ==
    IF section_index = SECTION_COUNT
    THEN [block_page |-> block_page, block_index |-> block_index,
          initial_section_skip |-> initial_section_skip,
          page_state |-> page_state, panic |-> ""]
    ELSE
    LET section == block_page[section_index]
        had_bits == section # {}
    IN  IF initial_section_skip > 0
        THEN dealloc_sections(block_page, map_index, section_index + 1, block_index,
                              initial_section_skip - 1, end_block_index,
                              [page_state EXCEPT ![section_index] =
                                  [had_bits |-> had_bits, has_bits |-> section # {}]])
        ELSE IF block_index < end_block_index
        THEN LET fields == calculate_bit_fields(map_index, section_index,
                                                end_block_index, block_index)
                 flipped == (section \ fields.bit_mask) \cup (fields.bit_mask \ section)
             IN  IF section \cap fields.bit_mask # fields.bit_mask
                 THEN [block_page |-> block_page, block_index |-> block_index,
                       initial_section_skip |-> initial_section_skip,
                       page_state |-> page_state, panic |-> DeallocAssert]
                 ELSE dealloc_sections([block_page EXCEPT ![section_index] = flipped],
                                       map_index, section_index + 1,
                                       block_index + fields.bit_count,
                                       initial_section_skip, end_block_index,
                                       [page_state EXCEPT ![section_index] =
                                          [had_bits |-> had_bits, has_bits |-> flipped # {}]])
        ELSE dealloc_sections(block_page, map_index, section_index + 1, block_index,
                              initial_section_skip, end_block_index,
                              [page_state EXCEPT ![section_index] =
                                  [had_bits |-> had_bits, has_bits |-> section # {}]])

\* if SectionState::should_dealloc(&page_state) {
\*     free_frame(translate_page(page).unwrap()); unmap(page) }
dealloc_release_page(s, map_index) ==
    IF ~addressor_is_mapped(s, map_index) THEN Panic(s, UnwrapNone)
    ELSE LET Freed(freed) == IF ~Running(freed) THEN freed
                             ELSE addressor_unmap(freed, map_index)
         IN  Freed(free_frame(s, translate_page(s, map_index)))

\* for (map_index, block_page) in map.iter_mut().enumerate().skip(..).take(..) { ... }
RECURSIVE dealloc_pages(_, _, _, _, _, _)
dealloc_pages(s, map_index, take, block_index, initial_section_skip, end_block_index) ==
    IF take <= 0 \/ map_index >= Len(s.map) THEN s
    ELSE
    LET Released(released, r) ==
            IF ~Running(released) THEN released
            ELSE dealloc_pages(released, map_index + 1, take - 1, r.block_index,
                               r.initial_section_skip, end_block_index)
        Written(written, r) ==
            IF r.panic # "" THEN Panic(written, r.panic)
            ELSE Released(IF should_dealloc(r.page_state)
                          THEN dealloc_release_page(written, map_index)
                          ELSE written,
                          r)
        Walked(r) == Written([s EXCEPT !.map[map_index + 1] = r.block_page], r)
    IN  Walked(dealloc_sections(s.map[map_index + 1], map_index, 0, block_index,
                                initial_section_skip, end_block_index,
                                [i \in Sections |-> SectionState_empty]))

\* BlockAllocator::dealloc(ptr, size): the state it leaves.
dealloc(s, ptr, size) ==
    LET start_block_index == ptr \div BLOCK_SIZE
        end_block_index == start_block_index + align_up_div(size, BLOCK_SIZE)
        start_map_index == start_block_index \div BLOCK_COUNT
        end_map_index == align_up_div(end_block_index, BLOCK_COUNT) - start_map_index
        initial_section_skip ==
            align_down_div(start_block_index, SECTION_LEN) - (start_map_index * SECTION_COUNT)
    IN  dealloc_pages(s, start_map_index, end_map_index, start_block_index,
                      initial_section_skip, end_block_index)

(* ------------------------------- alloc_to ------------------------------ *)

\* A FrameIterator over the frames start .. start + len - 1.
FrameIterator(start, len) == [start |-> start, len |-> len]

FrameIterator_len(frames) == frames.len

\* FrameIterator::start(), on a shared reference: the first frame of the run.
FrameIterator_start(frames) == frames.start

\* for block_page in self.map.read().iter() { ... }
RECURSIVE alloc_to_scan(_, _, _, _)
alloc_to_scan(map, map_index, current_run, size_in_frames) ==
    IF map_index >= Len(map) THEN [map_index |-> map_index, current_run |-> current_run]
    ELSE
    LET run == IF is_empty(map[map_index + 1]) THEN current_run + 1 ELSE 0
    IN  IF run = size_in_frames
        THEN [map_index |-> map_index + 1, current_run |-> run]
        ELSE alloc_to_scan(map, map_index + 1, run, size_in_frames)

\* while { search; current_run < size_in_frames } { self.grow(size_in_frames * BLOCK_COUNT); }
RECURSIVE alloc_to_search(_, _)
alloc_to_search(s, size_in_frames) ==
    LET Grown(grown) ==
            IF Running(grown) THEN alloc_to_search(grown, size_in_frames)
            ELSE [s |-> grown, map_index |-> 0, current_run |-> 0]
        Searched(r) ==
            IF r.current_run < size_in_frames
            THEN Grown(grow(s, size_in_frames * BLOCK_COUNT))
            ELSE [s |-> s, map_index |-> r.map_index, current_run |-> r.current_run]
    IN  Searched(alloc_to_scan(s.map, 0, 0, size_in_frames))

\* The frame alloc_to maps the page at map_index to.
alloc_to_frame(frames, start_index, map_index) == FrameIterator_start(frames)

\* for (map_index, block_page) in map.iter_mut().enumerate().skip(..).take(..) {
\*     block_page.set_full(); addressor.map(page, &frames.start()) }
RECURSIVE alloc_to_pages(_, _, _, _, _)
alloc_to_pages(s, frames, start_index, map_index, take) ==
    IF take <= 0 \/ map_index >= Len(s.map) THEN s
    ELSE alloc_to_pages(
            addressor_map([s EXCEPT !.map[map_index + 1] = set_full(@)], map_index,
                          alloc_to_frame(frames, start_index, map_index)),
            frames, start_index, map_index + 1, take - 1)

\* BlockAllocator::alloc_to(frames): the state it leaves and the pointer it returns.
alloc_to(s, frames) ==
    LET size_in_frames == FrameIterator_len(frames)
        Marked(heap, start_index) ==
            [s |-> alloc_to_pages(heap, frames, start_index, start_index, size_in_frames),
             ptr |-> start_index * FRAME_SIZE]
        Found(found) ==
            IF ~Running(found.s) THEN [s |-> found.s, ptr |-> 0]
            ELSE Marked(found.s, found.map_index - found.current_run)
    IN  Found(alloc_to_search(s, size_in_frames))

(* ----------------------------- identity_map ---------------------------- *)

\* BlockAllocator::identity_map(frame, map)
identity_map(s, frame, map) ==
    LET map_len == Len(s.map)
        SetFull(filled) == IF map THEN addressor_map(filled, frame, frame) ELSE filled
        SetEmpty(grown, emptied) ==
            IF ~is_empty(emptied)
            THEN Panic([grown EXCEPT !.map[frame + 1] = emptied],
                       "attempting to identity map page with previously allocated blocks")
            ELSE SetFull([grown EXCEPT !.map[frame + 1] = set_full(emptied)])
        Grown(grown) ==
            IF ~Running(grown) THEN grown
            ELSE SetEmpty(grown, set_empty(grown.map[frame + 1]))
    IN  Grown(IF map_len <= frame
              THEN grow(s, ((frame - map_len) + 1) * BLOCK_COUNT)
              ELSE s)

(* ------------- libkernel's BlockAllocator: raw_alloc, raw_dealloc ------ *)

\* crate::memory::global_lock_next() and global_free(frame): the frame
\* allocator's lock_next and free_frame.
global_lock_next(s) == lock_next(s)

global_free(s, frame) == free_frame(s, frame)

\* libkernel's grow(required_blocks): the new length of the map is the power
\* of two at or above the number of blocks, and the map's own pages are mapped
\* for that many BlockPages.
libkernel_grow(s, required_blocks) ==
    LET cur_map_len == Len(s.map)
        new_map_len == next_power_of_two((cur_map_len * BLOCK_COUNT) + required_blocks)
        frame_usage == ((cur_map_len * BLOCK_PAGE_BYTES) + (FRAME_SIZE - 1)) \div FRAME_SIZE
        new_frame_usage == ((new_map_len * BLOCK_PAGE_BYTES) + (FRAME_SIZE - 1)) \div FRAME_SIZE
        Mapped(mapped) ==
            IF ~Running(mapped) THEN mapped
            ELSE [mapped EXCEPT !.map =
                    [i \in 1 .. new_map_len |->
                        IF i <= cur_map_len THEN s.map[i] ELSE BlockPage_empty]]
    IN  Mapped(grow_map_pages(s, frame_usage, new_frame_usage))

\* libkernel's BlockAllocator::identity_map(frame): the page must be empty
\* before it is set full and mapped.
libkernel_identity_map(s, frame) ==
    LET map_len == Len(s.map)
        Grown(grown) ==
            IF ~Running(grown) THEN grown
            ELSE IF frame >= Len(grown.map) THEN Panic(grown, "index out of bounds")
            ELSE IF is_empty(grown.map[frame + 1])
            THEN addressor_map([grown EXCEPT !.map[frame + 1] = set_full(@)], frame, frame)
            ELSE Panic(grown, "attempting to identity map page with previously allocated blocks")
    IN  Grown(IF map_len <= frame
              THEN libkernel_grow(s, (frame - map_len) * BLOCK_COUNT)
              ELSE s)

\* while { search; current_run < size_in_blocks } { self.grow(size_in_blocks); }
\* The search is alloc's with no alignment: every clear bit extends the run.
RECURSIVE raw_alloc_search(_, _)
raw_alloc_search(s, size_in_blocks) ==
    LET Grown(grown) ==
            IF Running(grown) THEN raw_alloc_search(grown, size_in_blocks)
            ELSE [s |-> grown, block_index |-> 0, current_run |-> 0]
        Searched(r) ==
            IF r.current_run < size_in_blocks
            THEN Grown(libkernel_grow(s, size_in_blocks))
            ELSE [s |-> s, block_index |-> r.block_index, current_run |-> r.current_run]
    IN  Searched(alloc_scan(s.map, size_in_blocks, 1))

\* let total_bits = min(64, end_block_index - traversed_blocks) - start_byte_bits;
\* let bits_mask = MASK_MAP[total_bits - 1] << start_byte_bits;
\* With no skip of the sections before the run, start_byte_bits can reach or
\* pass the minimum: the subtraction overflows, or the index is out of bounds.
raw_bit_fields(profile, map_index, section_index, end_block_index, block_index) ==
    LET traversed_blocks == (map_index * BLOCK_COUNT) + (section_index * SECTION_LEN)
        start_byte_bits == block_index - traversed_blocks
        total_bits == Min(SECTION_LEN, end_block_index - traversed_blocks) - start_byte_bits
    IN  IF total_bits <= 0
        THEN [total_bits |-> 0, bits_mask |-> {},
              panic |-> IF overflow_checks(profile) THEN "attempt to subtract with overflow"
                        ELSE "index out of bounds"]
        ELSE [total_bits |-> total_bits,
              bits_mask |-> shl(U64_BIT_MASKS(total_bits - 1), start_byte_bits),
              panic |-> ""]

\* for (section_index, section) in block_page.iter_mut().enumerate() { ... },
\* of raw_alloc (freeing = FALSE) and of raw_dealloc (freeing = TRUE).
RECURSIVE raw_sections(_, _, _, _, _, _, _, _)
raw_sections(profile, freeing, block_page, map_index, section_index, block_index, end_block_index, page_state) ==
    IF section_index = SECTION_COUNT
    THEN [block_page |-> block_page, block_index |-> block_index,
          page_state |-> page_state, panic |-> ""]
    ELSE
    LET section == block_page[section_index]
        had_bits == section # {}
    IN  IF block_index < end_block_index
        THEN LET fields == raw_bit_fields(profile, map_index, section_index,
                                          end_block_index, block_index)
                 expected == IF freeing THEN fields.bits_mask ELSE {}
                 written == IF freeing
                            THEN (section \ fields.bits_mask) \cup (fields.bits_mask \ section)
                            ELSE section \cup fields.bits_mask
             IN  IF fields.panic # ""
                 THEN [block_page |-> block_page, block_index |-> block_index,
                       page_state |-> page_state, panic |-> fields.panic]
                 ELSE IF debug_assertions(profile) /\ (section \cap fields.bits_mask) # expected
                 THEN [block_page |-> block_page, block_index |-> block_index,
                       page_state |-> page_state, panic |-> AllocAssert]
                 ELSE raw_sections(profile, freeing,
                                   [block_page EXCEPT ![section_index] = written],
                                   map_index, section_index + 1,
                                   block_index + fields.total_bits, end_block_index,
                                   [page_state EXCEPT ![section_index] =
                                      [had_bits |-> had_bits, has_bits |-> written # {}]])
        ELSE raw_sections(profile, freeing, block_page, map_index, section_index + 1,
                          block_index, end_block_index,
                          [page_state EXCEPT ![section_index] =
                              [had_bits |-> had_bits, has_bits |-> section # {}]])

\* if SectionState::should_alloc(&page_state) { map(page, global_lock_next().unwrap()) }
raw_alloc_back_page(s, map_index) ==
    IF ~lock_next_some(s) THEN Panic(s, UnwrapNone)
    ELSE addressor_map(global_lock_next(s), map_index, lock_next_frame(s))

\* if SectionState::should_dealloc(&page_state) {
\*     global_free(translate_page(page).unwrap()); unmap(page) }
raw_dealloc_release_page(s, map_index) ==
    IF ~addressor_is_mapped(s, map_index) THEN Panic(s, UnwrapNone)
    ELSE LET Freed(freed) == IF ~Running(freed) THEN freed
                             ELSE addressor_unmap(freed, map_index)
         IN  Freed(global_free(s, translate_page(s, map_index)))

\* for (map_index, block_page) in map.iter_mut().enumerate().skip(..).take(..) { ... }
RECURSIVE raw_pages(_, _, _, _, _, _)
raw_pages(s, freeing, map_index, take, block_index, end_block_index) ==
    IF take <= 0 \/ map_index >= Len(s.map) THEN s
    ELSE
    LET Settled(settled, next_block_index) ==
            IF ~Running(settled) THEN settled
            ELSE raw_pages(settled, freeing, map_index + 1, take - 1, next_block_index,
                           end_block_index)
        Written(written, r) ==
            IF r.panic # "" THEN Panic(written, r.panic)
            ELSE Settled(IF ~freeing /\ should_alloc(r.page_state)
                         THEN raw_alloc_back_page(written, map_index)
                         ELSE IF freeing /\ should_dealloc(r.page_state)
                         THEN raw_dealloc_release_page(written, map_index)
                         ELSE written,
                         r.block_index)
        Walked(r) == Written([s EXCEPT !.map[map_index + 1] = r.block_page], r)
    IN  Walked(raw_sections(s.profile, freeing, s.map[map_index + 1], map_index, 0,
                            block_index, end_block_index,
                            [i \in Sections |-> SectionState_empty]))

\* libkernel's BlockAllocator::raw_alloc(size): the state it leaves and the
\* pointer it returns.
raw_alloc(s, size) ==
    LET size_in_blocks == (size + (BLOCK_SIZE - 1)) \div BLOCK_SIZE
        Marked(heap, start_block_index, end_block_index, start_map_index) ==
            [s |-> raw_pages(heap, FALSE, start_map_index,
                             align_up_div(end_block_index, BLOCK_COUNT) - start_map_index,
                             start_block_index, end_block_index),
             ptr |-> start_block_index * BLOCK_SIZE]
        Found(found) ==
            IF ~Running(found.s) THEN [s |-> found.s, ptr |-> 0]
            ELSE Marked(found.s, found.block_index - found.current_run, found.block_index,
                        (found.block_index - found.current_run) \div BLOCK_COUNT)
    IN  Found(raw_alloc_search(s, size_in_blocks))

\* libkernel's BlockAllocator::raw_dealloc(ptr, size): the state it leaves.
raw_dealloc(s, ptr, size) ==
    LET start_block_index == ptr \div BLOCK_SIZE
        end_block_index == start_block_index + align_up_div(size, BLOCK_SIZE)
        start_map_index == start_block_index \div BLOCK_COUNT
    IN  raw_pages(s, TRUE, start_map_index,
                  align_up_div(end_block_index, BLOCK_COUNT) - start_map_index,
                  start_block_index, end_block_index)

(* ------------------------- construction: from_mmap --------------------- *)

\* FrameType::BIT_WIDTH
BIT_WIDTH == 2

\* The firmware memory types the kernel treats as reserved.
is_uefi_reserved_memory_type(ty) == ty = "RESERVED"

\* BlockAllocator::new(): an empty map and nothing mapped; with the build
\* profile and the memory's content, which are not the allocators' to choose.
BlockAllocator_new(profile) ==
    [map |-> << >>,
     addressor |-> [page \in {} |-> 0],
     meta |-> [offset \in {} |-> 0],
     memory_map |-> [frame \in {} |-> "Unallocated"],
     memory |-> FrameAllocatorMemory_new(0),
     content |-> [frame \in {} |-> "data"],
     panic |-> "",
     profile |-> profile]

\* The first descriptor taken for the last one.
max_by_phys_start_first(mmap) == mmap[1]

\* iter().max_by_key(|descriptor| descriptor.phys_start): the last of the
\* descriptors with the greatest phys_start.
max_by_phys_start(mmap) ==
    LET best == CHOOSE i \in 1 .. Len(mmap) :
                    /\ \A j \in 1 .. Len(mmap) : mmap[j].phys_start <= mmap[i].phys_start
                    /\ \A j \in (i + 1) .. Len(mmap) : mmap[j].phys_start < mmap[i].phys_start
    IN  mmap[best]

\* reserve_frames(Frame::range_count(phys_start, page_count)): reserve_frame on
\* each frame of the run, in order, stopping at the first panic.
RECURSIVE reserve_frames(_, _, _)
reserve_frames(s, frame, count) ==
    IF count <= 0 \/ ~Running(s) THEN s
    ELSE IF frame \notin DOMAIN s.memory_map THEN Panic(s, "index out of bounds")
    ELSE reserve_frames(reserve_frame(s, frame), frame + 1, count - 1)

\* The loop over the firmware-reserved descriptors left out.
reserve_descriptors_none(s, mmap, i) == s

\* for descriptor in uefi_memory_map.iter().filter(reserved) { reserve_frames(..) }
RECURSIVE reserve_descriptors(_, _, _)
reserve_descriptors(s, mmap, i) ==
    IF i > Len(mmap) \/ ~Running(s) THEN s
    ELSE IF is_uefi_reserved_memory_type(mmap[i].ty)
    THEN reserve_descriptors(
            reserve_frames(s, mmap[i].phys_start \div FRAME_SIZE, mmap[i].page_count),
            mmap, i + 1)
    ELSE reserve_descriptors(s, mmap, i + 1)

\* The first descriptor taken whatever its size.
find_viable_first(mmap, memory_pages) == 1

\* iter().find(|descriptor| descriptor.page_count >= memory_pages): the index
\* of the first descriptor that large, 0 when there is none.
find_viable(mmap, memory_pages) ==
    LET viable == {i \in 1 .. Len(mmap) : mmap[i].page_count >= memory_pages}
    IN  IF viable = {} THEN 0 ELSE CHOOSE i \in viable : \A j \in viable : i <= j

\* FrameAllocator::from_mmap(uefi_memory_map), on the state base.
from_mmap(base, mmap) ==
    LET last_descriptor == max_by_phys_start(mmap)
        total_memory == last_descriptor.phys_start + (last_descriptor.page_count * FRAME_SIZE)
        element_count == total_memory \div FRAME_SIZE
        memory_size == (element_count * BIT_WIDTH) \div 8
        memory_pages == (align_up_div(memory_size, FRAME_SIZE) * FRAME_SIZE) \div FRAME_SIZE
        found == find_viable(mmap, memory_pages)
    IN  IF found = 0
        THEN Panic(base, "failed to find viable memory descriptor for memory map.")
        ELSE
        LET descriptor == mmap[found]
            this == [base EXCEPT
                        !.memory_map = [frame \in 0 .. (element_count - 1) |-> "Unallocated"],
                        !.memory = FrameAllocatorMemory_new(total_memory),
                        !.content = [frame \in 0 .. (element_count - 1) |-> "data"]]
            null_reserved == reserve_frames(this, 0, 1)
            bitmap_reserved == reserve_frames(null_reserved,
                                              descriptor.phys_start \div FRAME_SIZE,
                                              memory_pages)
        IN  reserve_descriptors(bitmap_reserved, mmap, 1)

\* The boot memory map of the model: one usable region above the null frame.
BootMap ==
    << [ty |-> "CONVENTIONAL", phys_start |-> FRAME_SIZE, page_count |-> NumFrames - 1] >>

(* -------------------------------- state -------------------------------- *)

VARIABLES
    map,         \* the BlockPage sequence
    addressor,   \* heap page index -> frame, for the mapped heap pages
    meta,        \* offset from ALLOCATOR_BASE -> frame, for the map's own pages
    memory_map,  \* frame index -> FrameType
    memory,      \* the frame allocator's byte counters
    content,     \* frame index -> "zero" | "data": what the frame's memory holds
    panic,       \* "" while the kernel runs, else the message it halted with
    profile,     \* the build: "debug" or "release"
    live,        \* the <<pointer, size>> of the allocations the callers hold
    stale,       \* the <<pointer, size>> of the allocation deallocated last
    owned,       \* the frames a caller locked for itself
    calls,       \* the number of calls made so far
    last,        \* the last call: [op, args, ret]
    callers      \* the position of each concurrent caller of lock_next_count

vars == <<map, addressor, meta, memory_map, memory, content, panic, profile,
          live, stale, owned, calls, last, callers>>

\* The program's state as one record, the form the operations above take.
State ==
    [map |-> map, addressor |-> addressor, meta |-> meta, memory_map |-> memory_map,
     memory |-> memory, content |-> content, panic |-> panic, profile |-> profile]

\* The program's next state is s.
Becomes(s) ==
    /\ map' = s.map
    /\ addressor' = s.addressor
    /\ meta' = s.meta
    /\ memory_map' = s.memory_map
    /\ memory' = s.memory
    /\ content' = s.content
    /\ panic' = s.panic
    /\ profile' = s.profile

Call(op, args, ret) == [op |-> op, args |-> args, ret |-> ret]

\* A call is made: the kernel runs, and the run stays within the model's length.
Calling(op, args, ret) ==
    /\ calls' = calls + 1
    /\ last' = Call(op, args, ret)
    /\ callers' = callers

CanCall == panic = "" /\ calls < MaxCalls

Profiles == {"debug", "release"}

\* The CPUs that may be inside lock_next_count at once.
Callers == {"cpu0", "cpu1"}

Init ==
    /\ profile \in Profiles
    /\ \E s \in {from_mmap(BlockAllocator_new(profile), BootMap)} :
           /\ map = s.map
           /\ addressor = s.addressor
           /\ meta = s.meta
           /\ memory_map = s.memory_map
           /\ memory = s.memory
           /\ content = s.content
           /\ panic = s.panic
    /\ live = {}
    /\ stale = {}
    /\ owned = {}
    /\ calls = 0
    /\ last = Call("new", << >>, 0)
    /\ callers = [cpu \in Callers |-> Caller_idle]

(* ------------------------------- the calls ----------------------------- *)

\* The <<size, align>> layouts the callers ask for.  A Layout's alignment is a
\* power of two; its size is any number, zero included.
Layouts ==
    {<<0, 16>>, <<0, 32>>, <<16, 8>>, <<16, 16>>, <<16, 32>>, <<100, 16>>, <<1040, 16>>,
     <<5000, 16>>}

CallAlloc(size, align) ==
    /\ CanCall
    /\ Cardinality(live) < MaxLive
    /\ \E r \in {alloc(State, size, align)} :
           /\ Becomes(r.s)
           /\ live' = IF Running(r.s) THEN live \cup {<<r.ptr, size>>} ELSE live
           /\ Calling("alloc", <<size, align>>, r.ptr)
    /\ UNCHANGED <<stale, owned>>

CallDealloc(ptr, size) ==
    /\ CanCall
    /\ <<ptr, size>> \in live
    /\ \E s \in {dealloc(State, ptr, size)} : Becomes(s)
    /\ live' = live \ {<<ptr, size>>}
    /\ stale' = {<<ptr, size>>}
    /\ Calling("dealloc", <<ptr, size>>, 0)
    /\ UNCHANGED owned

\* A caller deallocates again what it has deallocated already.
CallDeallocAgain(ptr, size) ==
    /\ CanCall
    /\ <<ptr, size>> \in stale
    /\ <<ptr, size>> \notin live
    /\ \E s \in {dealloc(State, ptr, size)} : Becomes(s)
    /\ Calling("dealloc_again", <<ptr, size>>, 0)
    /\ UNCHANGED <<live, stale, owned>>

Next ==
    \/ \E layout \in Layouts : CallAlloc(layout[1], layout[2])
    \/ \E a \in live : CallDealloc(a[1], a[2])

\* The kernel heap under alloc and dealloc, each allocation deallocated at
\* most once.
Spec == Init /\ [][Next]_vars

NextDouble ==
    \/ Next
    \/ \E a \in stale : CallDeallocAgain(a[1], a[2])

\* The same, with callers that deallocate an allocation twice.
SpecDouble == Init /\ [][NextDouble]_vars

(* -------------------- the frame allocator called directly -------------- *)

CallFreeFrame(frame) ==
    /\ CanCall
    /\ \E s \in {free_frame(State, frame)} : Becomes(s)
    /\ Calling("free_frame", <<frame>>, 0)
    /\ UNCHANGED <<live, stale, owned>>

CallLockFrame(frame) ==
    /\ CanCall
    /\ \E s \in {lock_frame(State, frame)} :
           /\ Becomes(s)
           /\ owned' = IF Running(s) THEN owned \cup {frame} ELSE owned
    /\ Calling("lock_frame", <<frame>>, 0)
    /\ UNCHANGED <<live, stale>>

CallReserveFrame(frame) ==
    /\ CanCall
    /\ \E s \in {reserve_frame(State, frame)} : Becomes(s)
    /\ Calling("reserve_frame", <<frame>>, 0)
    /\ UNCHANGED <<live, stale, owned>>

\* lock_next() returns Some(frame) or None; ret is the frame, or -1 for None.
CallLockNext ==
    /\ CanCall
    /\ Becomes(lock_next(State))
    /\ Calling("lock_next", << >>, IF lock_next_some(State) THEN lock_next_frame(State) ELSE -1)
    /\ UNCHANGED <<live, stale, owned>>

NextFrames ==
    \/ \E frame \in Frames : CallFreeFrame(frame)
    \/ \E frame \in Frames : CallLockFrame(frame)
    \/ \E frame \in Frames : CallReserveFrame(frame)
    \/ CallLockNext

SpecFrames == Init /\ [][NextFrames]_vars

(* ------------------- alloc_to on frames the caller locked -------------- *)

\* Most frames in the run a caller hands to alloc_to.
MaxRun == 2

\* alloc_to(frames), frames the run of len frames from start, each locked by
\* the caller beforehand.
CallAllocTo(start, len) ==
    /\ CanCall
    /\ \A frame \in start .. (start + len - 1) : frame \in owned
    /\ \E r \in {alloc_to(State, FrameIterator(start, len))} :
           /\ Becomes(r.s)
           /\ Calling("alloc_to", <<start, len>>, r.ptr)
    /\ owned' = owned \ (start .. (start + len - 1))
    /\ UNCHANGED <<live, stale>>

NextAllocTo ==
    \/ \E frame \in Frames : CallLockFrame(frame)
    \/ \E start \in Frames, len \in 1 .. MaxRun : CallAllocTo(start, len)
    \/ \E layout \in {<<16, 16>>, <<5000, 16>>} : CallAlloc(layout[1], layout[2])
    \/ \E a \in live : CallDealloc(a[1], a[2])

\* The kernel heap under alloc, dealloc and alloc_to.
SpecAllocTo == Init /\ [][NextAllocTo]_vars

(* ---------------- libkernel's allocator as the global allocator -------- *)

\* The sizes of the layouts handed to libkernel's allocator.
RawSizes == {16, 100, 1040}

\* GlobalAlloc::alloc(layout): raw_alloc(layout.size()).
CallRawAlloc(size) ==
    /\ CanCall
    /\ Cardinality(live) < MaxLive
    /\ \E r \in {raw_alloc(State, size)} :
           /\ Becomes(r.s)
           /\ live' = IF Running(r.s) THEN live \cup {<<r.ptr, size>>} ELSE live
           /\ Calling("raw_alloc", <<size>>, r.ptr)
    /\ UNCHANGED <<stale, owned>>

\* GlobalAlloc::dealloc(ptr, layout): raw_dealloc(ptr, layout.size()).
CallRawDealloc(ptr, size) ==
    /\ CanCall
    /\ <<ptr, size>> \in live
    /\ \E s \in {raw_dealloc(State, ptr, size)} : Becomes(s)
    /\ live' = live \ {<<ptr, size>>}
    /\ stale' = {<<ptr, size>>}
    /\ Calling("raw_dealloc", <<ptr, size>>, 0)
    /\ UNCHANGED owned

\* A caller deallocates again what it has deallocated already.
CallRawDeallocAgain(ptr, size) ==
    /\ CanCall
    /\ <<ptr, size>> \in stale
    /\ <<ptr, size>> \notin live
    /\ \E s \in {raw_dealloc(State, ptr, size)} : Becomes(s)
    /\ Calling("raw_dealloc_again", <<ptr, size>>, 0)
    /\ UNCHANGED <<live, stale, owned>>

NextLib ==
    \/ \E size \in RawSizes : CallRawAlloc(size)
    \/ \E a \in live : CallRawDealloc(a[1], a[2])
    \/ \E a \in stale : CallRawDeallocAgain(a[1], a[2])

\* libkernel's allocator, from the state its init leaves once the frame
\* allocator, the addressor and the empty map are set up.
SpecLib == Init /\ [][NextLib]_vars

(* ------------------------ grow and identity_map ------------------------ *)

\* The required_blocks the callers of grow pass: none, one block, and more
\* blocks than one page of the map tracks.
GrowBlocks == {0, 1, BLOCKS_PER_MAP_PAGE + 1}

\* The frames the boot code identity maps.
IdentityFrames == {0, 1}

\* BlockAllocator::grow(required_blocks), called directly.
CallGrow(required_blocks) ==
    /\ CanCall
    /\ \E s \in {grow(State, required_blocks)} : Becomes(s)
    /\ Calling("grow", <<required_blocks>>, 0)
    /\ UNCHANGED <<live, stale, owned>>

\* BlockAllocator::identity_map(frame, map); the call records map as 1 or 0.
CallIdentityMap(frame, do_map) ==
    /\ CanCall
    /\ \E s \in {identity_map(State, frame, do_map)} : Becomes(s)
    /\ Calling("identity_map", <<frame, IF do_map THEN 1 ELSE 0>>, 0)
    /\ UNCHANGED <<live, stale, owned>>

NextGrow ==
    \/ \E layout \in {<<16, 16>>, <<5000, 16>>} : CallAlloc(layout[1], layout[2])
    \/ \E required_blocks \in GrowBlocks : CallGrow(required_blocks)
    \/ \E frame \in IdentityFrames, do_map \in BOOLEAN : CallIdentityMap(frame, do_map)

\* The kernel heap under alloc, grow and identity_map.
SpecGrow == Init /\ [][NextGrow]_vars

\* libkernel's grow(required_blocks), called directly.
CallRawGrow(required_blocks) ==
    /\ CanCall
    /\ \E s \in {libkernel_grow(State, required_blocks)} : Becomes(s)
    /\ Calling("raw_grow", <<required_blocks>>, 0)
    /\ UNCHANGED <<live, stale, owned>>

\* libkernel's identity_map(frame).
CallRawIdentityMap(frame) ==
    /\ CanCall
    /\ \E s \in {libkernel_identity_map(State, frame)} : Becomes(s)
    /\ Calling("raw_identity_map", <<frame>>, 0)
    /\ UNCHANGED <<live, stale, owned>>

NextLibGrow ==
    \/ \E size \in {16, 1040} : CallRawAlloc(size)
    \/ \E required_blocks \in GrowBlocks : CallRawGrow(required_blocks)
    \/ \E frame \in IdentityFrames : CallRawIdentityMap(frame)

\* libkernel's allocator under raw_alloc, grow and identity_map.
SpecLibGrow == Init /\ [][NextLibGrow]_vars

(* ----------------- the frame allocator over other memory maps --------- *)

\* A frame whose bitmap entry lies in the bitmap's second page: a page holds
\* the entries of 4096 * 8 / BIT_WIDTH frames.
HighFrame == ((FRAME_SIZE * 8) \div BIT_WIDTH) + 3

\* A memory map with one firmware-reserved region of 64 KiB at physical
\* address 0 and one usable region of 1 MiB above it.
ScenarioMap ==
    << [ty |-> "RESERVED", phys_start |-> 0, page_count |-> (64 * 1024) \div FRAME_SIZE],
       [ty |-> "CONVENTIONAL", phys_start |-> 64 * 1024,
        page_count |-> (1024 * 1024) \div FRAME_SIZE] >>

\* The same regions, the usable one listed first.
ScenarioMapUsableFirst == << ScenarioMap[2], ScenarioMap[1] >>

\* The memory maps the firmware hands over: the boot map of the other
\* specifications; a reserved region between two usable ones; descriptors
\* not in address order; a reserved region as the first descriptor large
\* enough for the bitmap; a reserved region lying inside a usable one that
\* ends above it; an empty descriptor before the usable region; a single
\* page so high that its bitmap takes two pages; and the two scenario maps.
BootMaps ==
    { BootMap,
      << [ty |-> "CONVENTIONAL", phys_start |-> FRAME_SIZE, page_count |-> 0],
         [ty |-> "CONVENTIONAL", phys_start |-> 2 * FRAME_SIZE, page_count |-> 4] >>,
      << [ty |-> "CONVENTIONAL", phys_start |-> HighFrame * FRAME_SIZE, page_count |-> 1] >>,
      << [ty |-> "CONVENTIONAL", phys_start |-> FRAME_SIZE, page_count |-> 4],
         [ty |-> "RESERVED", phys_start |-> 2 * FRAME_SIZE, page_count |-> 1] >>,
      << [ty |-> "CONVENTIONAL", phys_start |-> FRAME_SIZE, page_count |-> 1],
         [ty |-> "RESERVED", phys_start |-> 2 * FRAME_SIZE, page_count |-> 2],
         [ty |-> "CONVENTIONAL", phys_start |-> 4 * FRAME_SIZE, page_count |-> 1] >>,
      << [ty |-> "CONVENTIONAL", phys_start |-> 3 * FRAME_SIZE, page_count |-> 2],
         [ty |-> "RESERVED", phys_start |-> FRAME_SIZE, page_count |-> 2] >>,
      << [ty |-> "RESERVED", phys_start |-> FRAME_SIZE, page_count |-> 2],
         [ty |-> "CONVENTIONAL", phys_start |-> 3 * FRAME_SIZE, page_count |-> 2] >>,
      ScenarioMap,
      ScenarioMapUsableFirst }

\* The state after FrameAllocator::from_mmap(mmap), for each of the maps.
InitBoot ==
    /\ profile \in Profiles
    /\ \E mmap \in BootMaps :
          /\ \E s \in {from_mmap(BlockAllocator_new(profile), mmap)} :
                /\ map = s.map
                /\ addressor = s.addressor
                /\ meta = s.meta
                /\ memory_map = s.memory_map
                /\ memory = s.memory
                /\ content = s.content
                /\ panic = s.panic
          /\ last = Call("from_mmap", <<mmap>>, 0)
    /\ live = {}
    /\ stale = {}
    /\ owned = {}
    /\ calls = 0
    /\ callers = [cpu \in Callers |-> Caller_idle]

\* The frames a caller names: those the memory map describes, of the first few.
BootFrames == Frames \cap DOMAIN memory_map

\* The counts the callers of lock_next_count pass; -1 is usize::MAX.
LockCounts == {0, 1, 2, 3, -1}

\* lock_next_count(count), by one caller with no other caller running.
CallLockNextCount(count) ==
    /\ CanCall
    /\ \E r \in {lock_next_count(State, count)} :
          /\ Becomes(r.s)
          /\ Calling("lock_next_count", <<count>>, r.ret)
    /\ UNCHANGED <<live, stale, owned>>

NextBoot ==
    \/ \E frame \in BootFrames : CallFreeFrame(frame)
    \/ \E frame \in BootFrames : CallLockFrame(frame)
    \/ \E frame \in BootFrames : CallReserveFrame(frame)
    \/ CallLockNext
    \/ \E count \in LockCounts : CallLockNextCount(count)

\* The frame allocator built over each of the memory maps, then called.
SpecBoot == InitBoot /\ [][NextBoot]_vars

(* --------------------------- reading the bitmap ------------------------ *)

\* The BlockPage at map_index; past the end of the sequence there are no
\* blocks in use.
PageAt(m, map_index) == IF map_index < Len(m) THEN m[map_index + 1] ELSE BlockPage_empty

\* Whether block b is marked in use in the BlockPage sequence m.
BlockIsSet(m, b) ==
    (b % SECTION_LEN) \in PageAt(m, b \div BLOCK_COUNT)[(b % BLOCK_COUNT) \div SECTION_LEN]

\* The blocks of the byte range [ptr, ptr + size): first block and count.
FirstBlock(ptr) == ptr \div BLOCK_SIZE

BlockCount(size) == (size + (BLOCK_SIZE - 1)) \div BLOCK_SIZE

BlocksOf(ptr, size) == FirstBlock(ptr) .. (FirstBlock(ptr) + BlockCount(size) - 1)

\* The pages the range has blocks in.
PagesOf(ptr, size) ==
    IF BlockCount(size) = 0 THEN {}
    ELSE (FirstBlock(ptr) \div BLOCK_COUNT)
            .. ((FirstBlock(ptr) + BlockCount(size) - 1) \div BLOCK_COUNT)

\* The bits of one section that belong to the range.
BitsOf(ptr, size, map_index, section) ==
    {bit \in U64_MAX :
        ((map_index * BLOCK_COUNT) + (section * SECTION_LEN) + bit) \in BlocksOf(ptr, size)}

\* after is before with the range's bits set, and nothing else changed.
OnlySet(before, after, ptr, size) ==
    /\ Len(after) >= Len(before)
    /\ \A page \in PagesOf(ptr, size) : page < Len(after)
    /\ \A map_index \in 0 .. (Len(after) - 1) :
          IF map_index \in PagesOf(ptr, size)
          THEN \A section \in Sections :
                  after[map_index + 1][section]
                      = PageAt(before, map_index)[section] \cup BitsOf(ptr, size, map_index, section)
          ELSE after[map_index + 1] = PageAt(before, map_index)

\* after is before with the range's bits cleared, and nothing else changed.
OnlyCleared(before, after, ptr, size) ==
    /\ Len(after) = Len(before)
    /\ \A map_index \in 0 .. (Len(after) - 1) :
          IF map_index \in PagesOf(ptr, size)
          THEN \A section \in Sections :
                  after[map_index + 1][section]
                      = before[map_index + 1][section] \ BitsOf(ptr, size, map_index, section)
          ELSE after[map_index + 1] = before[map_index + 1]

\* The program's state after the step.
StateNext ==
    [map |-> map', addressor |-> addressor', meta |-> meta', memory_map |-> memory_map',
     memory |-> memory', content |-> content', panic |-> panic', profile |-> profile']

\* The step is a call of op that returned.
Returned(op) == calls' = calls + 1 /\ last'.op = op /\ panic' = ""

(* ------------------------ C1: compare-and-set -------------------------- *)

\* The state free_frame, lock_frame and reserve_frame each expect of the frame.
ExpectedOf(op) == IF op = "free_frame" THEN "Allocated" ELSE "Unallocated"

\* The state each leaves the frame in.
NewOf(op) ==
    IF op = "free_frame" THEN "Unallocated"
    ELSE IF op = "lock_frame" THEN "Allocated" ELSE "Reserved"

\* C1: free_frame(f) succeeds only when f is Allocated, lock_frame(f) and
\* reserve_frame(f) only when f is Unallocated, and then f takes its new state;
\* on any other prior state the call panics and leaves every frame's state and
\* all four byte counters as they were.
C1_CompareAndSet ==
    [][(calls' = calls + 1 /\ last'.op \in {"free_frame", "lock_frame", "reserve_frame"}) =>
          LET frame == last'.args[1]
          IN  IF memory_map[frame] = ExpectedOf(last'.op)
              THEN memory_map' = [memory_map EXCEPT ![frame] = NewOf(last'.op)]
              ELSE /\ panic' = "attempted to reserve a non-free frame"
                   /\ memory_map' = memory_map
                   /\ memory' = memory]_vars

\* A free_frame of a Reserved frame has panicked.
C1_Witness ==
    /\ last.op = "free_frame"
    /\ panic = "attempted to reserve a non-free frame"
    /\ memory_map[last.args[1]] = "Reserved"

(* ------------------------ C2: alloc marks its range -------------------- *)

\* C2: for every size and every alignment that is a multiple of 16, an alloc
\* that returns p has p % align = 0, the ceil(size/16) blocks of [p, p + size)
\* were all clear before the call and are all set after it, and no other bit of
\* the BlockPage sequence changed.
C2_AllocMarksItsRange ==
    [][(Returned("alloc") /\ last'.args[2] % 16 = 0) =>
          LET size == last'.args[1]
              align == last'.args[2]
              p == last'.ret
          IN  /\ p % align = 0
              /\ \A b \in BlocksOf(p, size) : ~BlockIsSet(map, b)
              /\ OnlySet(map, map', p, size)]_vars

\* The same for the sizes of at least one byte.
C2_NonZeroSizes ==
    [][(Returned("alloc") /\ last'.args[2] % 16 = 0 /\ last'.args[1] >= 1) =>
          LET size == last'.args[1]
              align == last'.args[2]
              p == last'.ret
          IN  /\ p % align = 0
              /\ \A b \in BlocksOf(p, size) : ~BlockIsSet(map, b)
              /\ OnlySet(map, map', p, size)]_vars

(* ------------------------ C4: alloc then dealloc ----------------------- *)

\* The pages of the range that the step emptied.
Emptied(ptr, size) ==
    {page \in PagesOf(ptr, size) :
        ~is_empty(PageAt(map, page)) /\ is_empty(PageAt(map', page))}

\* C4: dealloc(p, size) of what alloc(size, align) returned clears every bit
\* the alloc set; every BlockPage that becomes empty is unmapped and its frame
\* is Unallocated again, and free_memory grows by 4096 for each such page.
C4_DeallocReleases ==
    [][\A a \in live :
          (calls' = calls + 1 /\ last' = Call("dealloc", a, 0)) =>
              /\ \A b \in BlocksOf(a[1], a[2]) : ~BlockIsSet(map', b)
              /\ \A page \in Emptied(a[1], a[2]) :
                    /\ page \in DOMAIN addressor
                    /\ page \notin DOMAIN addressor'
                    /\ memory_map'[addressor[page]] = "Unallocated"
              /\ memory'.free_memory
                    = memory.free_memory + (FRAME_SIZE * Cardinality(Emptied(a[1], a[2])))]_vars

(* ------------------------ C5: mapped iff nonempty ---------------------- *)

\* C5: while the kernel runs, after any sequence of alloc and dealloc calls, a
\* heap page is mapped to a frame exactly when its BlockPage has a set bit.
C5_MappedIffNonEmpty ==
    panic = "" =>
        /\ \A page \in DOMAIN addressor : page < Len(map)
        /\ \A map_index \in 0 .. (Len(map) - 1) :
              (map_index \in DOMAIN addressor) <=> ~is_empty(map[map_index + 1])

\* A dealloc has emptied and unmapped page 0 while page 1 stays in use and mapped.
C5_Witness ==
    /\ panic = ""
    /\ last.op = "dealloc"
    /\ Len(map) >= 2
    /\ is_empty(map[1]) /\ 0 \notin DOMAIN addressor
    /\ ~is_empty(map[2]) /\ 1 \in DOMAIN addressor

(* ------------------------ C7: first fit -------------------------------- *)

\* C7: the run an alloc of at least one byte returns starts at a multiple of
\* align/16 blocks, and no lower-indexed run of size_in_blocks clear bits
\* starting at such a multiple was in the BlockPage sequence when alloc
\* searched it.
C7_FirstFit ==
    [][(Returned("alloc") /\ last'.args[1] >= 1) =>
          LET count == BlockCount(last'.args[1])
              step == IF last'.args[2] % 16 = 0 THEN last'.args[2] \div 16 ELSE 1
              first == FirstBlock(last'.ret)
          IN  /\ first % step = 0
              /\ \A lower \in 0 .. (first - 1) :
                    ~ /\ lower % step = 0
                      /\ lower + count <= Len(map) * BLOCK_COUNT
                      /\ \A b \in lower .. (lower + count - 1) : ~BlockIsSet(map, b)]_vars

(* ------------------------ C8: alignment downgrade ---------------------- *)

\* C8: an alloc whose align is not a multiple of 16 leaves the state alloc with
\* align 16 leaves from the same state, and returns the same pointer.
C8_AlignDowngrade ==
    [][(calls' = calls + 1 /\ last'.op = "alloc" /\ last'.args[2] % 16 # 0) =>
          \E r \in {alloc(State, last'.args[1], 16)} :
              /\ r.s = StateNext
              /\ Running(r.s) => r.ptr = last'.ret]_vars

\* An alloc with align 8 has returned a run past an allocation made before it.
C8_Witness ==
    /\ panic = ""
    /\ last.op = "alloc"
    /\ last.args[2] = 8
    /\ last.ret > 0

(* ------------------------ C9: a shared BlockPage ----------------------- *)

\* The live allocations other than a that have blocks in a page a has blocks in.
Sharing(a) ==
    {b \in live \ {a} : PagesOf(a[1], a[2]) \cap PagesOf(b[1], b[2]) # {}}

\* Every page a has blocks in, another live allocation has blocks in too.
WhollyShared(a) ==
    \A page \in PagesOf(a[1], a[2]) : \E b \in Sharing(a) : page \in PagesOf(b[1], b[2])

\* C9: dealloc of a live allocation that shares a BlockPage with another live
\* allocation, when it returns, has cleared exactly its own bits, left the
\* other's bits set, and left each shared page mapped to the frame it had, that
\* frame still Allocated; and it does return when all its pages are shared (as
\* in alloc(100,16), alloc(16,16), dealloc of the first).
C9_SharedPageKept ==
    [][\A a \in live :
          (calls' = calls + 1 /\ last' = Call("dealloc", a, 0) /\ Sharing(a) # {}) =>
              /\ WhollyShared(a) => panic' = ""
              /\ panic' = "" =>
                    /\ OnlyCleared(map, map', a[1], a[2])
                    /\ \A b \in Sharing(a) :
                          /\ \A blk \in BlocksOf(b[1], b[2]) : BlockIsSet(map', blk)
                          /\ \A page \in PagesOf(a[1], a[2]) \cap PagesOf(b[1], b[2]) :
                                /\ page \in DOMAIN addressor'
                                /\ addressor'[page] = addressor[page]
                                /\ memory_map'[addressor[page]] = "Allocated"]_vars

\* alloc(100,16), alloc(16,16) and the dealloc of the first have run: the first
\* allocation's blocks are clear, the second's block is set, page 0 is mapped.
C9_Witness ==
    /\ panic = ""
    /\ last = Call("dealloc", <<0, 100>>, 0)
    /\ <<256, 16>> \in live
    /\ ~BlockIsSet(map, 0) /\ BlockIsSet(map, 16)
    /\ 0 \in DOMAIN addressor

(* ------------------------ C10: alloc_to -------------------------------- *)

\* C10: alloc_to of a run of n frames that returns has picked n BlockPages that
\* were empty, left each of them full, and mapped the i-th of them to the i-th
\* frame of the run.
C10_AllocToMapsInOrder ==
    [][Returned("alloc_to") =>
          LET start == last'.args[1]
              n == last'.args[2]
              first == last'.ret \div FRAME_SIZE
          IN  \A i \in 0 .. (n - 1) :
                  /\ first + i < Len(map')
                  /\ is_empty(PageAt(map, first + i))
                  /\ is_full(map'[first + i + 1])
                  /\ (first + i) \in DOMAIN addressor'
                  /\ addressor'[first + i] = start + i]_vars

(* ------------------------ C3: double dealloc --------------------------- *)

\* C3: a dealloc of a range deallocated already, when a bit of the range is
\* clear, panics, and sets no bit of the range that was clear.
C3_DoubleDeallocIsFatal ==
    [][(/\ calls' = calls + 1
        /\ last'.op \in {"dealloc_again", "raw_dealloc_again"}
        /\ \E b \in BlocksOf(last'.args[1], last'.args[2]) : ~BlockIsSet(map, b)) =>
          /\ panic' # ""
          /\ \A b \in BlocksOf(last'.args[1], last'.args[2]) :
                ~BlockIsSet(map, b) => ~BlockIsSet(map', b)]_vars

(* ------------------------ C6: backing a page --------------------------- *)

\* The pages the step took from empty to nonempty.
Filled ==
    {page \in 0 .. (Len(map') - 1) :
        is_empty(PageAt(map, page)) /\ ~is_empty(map'[page + 1])}

\* C6: an alloc that returns has, for each BlockPage it took from empty to
\* nonempty, mapped that page to one frame that was Unallocated and is now
\* Allocated, a frame of its own, and zeroed it; every other page has the
\* mapping it had, and no frame was taken beyond these and the frames for the
\* map's own new pages.
C6_EmptyToNonEmptyBacked ==
    [][(calls' = calls + 1 /\ last'.op \in {"alloc", "raw_alloc"} /\ panic' = "") =>
          /\ \A page \in Filled :
                /\ page \notin DOMAIN addressor
                /\ page \in DOMAIN addressor'
                /\ memory_map[addressor'[page]] = "Unallocated"
                /\ memory_map'[addressor'[page]] = "Allocated"
                /\ content'[addressor'[page]] = "zero"
                /\ \A other \in DOMAIN addressor' :
                      other # page => addressor'[other] # addressor'[page]
          /\ \A page \in (DOMAIN addressor \cup DOMAIN addressor') \ Filled :
                /\ page \in DOMAIN addressor
                /\ page \in DOMAIN addressor'
                /\ addressor'[page] = addressor[page]
          /\ {frame \in Frames : memory_map'[frame] # memory_map[frame]}
                = {addressor'[page] : page \in Filled}
                    \cup {meta'[offset] : offset \in DOMAIN meta' \ DOMAIN meta}]_vars

(* ---------------- concurrent callers of lock_next_count ---------------- *)

\* The counts the concurrent callers pass.
ConcurrentCounts == {0, 1, 2}

\* The frames another CPU locks or frees while the callers run.
ConcurrentFrames == {3, 4}

\* A CPU enters lock_next_count(count).
EnterLockNextCount(cpu, count) ==
    /\ CanCall
    /\ callers[cpu].pc \in {"idle", "done"}
    /\ callers' = [callers EXCEPT ![cpu] = lock_next_count_enter(count)]
    /\ calls' = calls + 1
    /\ UNCHANGED <<map, addressor, meta, memory_map, memory, content, panic,
                   profile, live, stale, owned, last>>

\* A CPU inside lock_next_count takes its next step; the step that returns
\* records the call.
StepLockNextCount(cpu) ==
    /\ Running(State)
    /\ callers[cpu].pc \notin {"idle", "done"}
    /\ \E r \in {lock_next_count_step(State, callers[cpu])} :
          /\ Becomes(r.s)
          /\ callers' = [callers EXCEPT ![cpu] = r.t]
          /\ last' = IF r.t.pc = "done"
                     THEN Call("lock_next_count", <<r.t.count>>, r.t.ret)
                     ELSE last
    /\ UNCHANGED <<live, stale, owned, calls>>

NextCount ==
    \/ \E cpu \in Callers, count \in ConcurrentCounts : EnterLockNextCount(cpu, count)
    \/ \E cpu \in Callers : StepLockNextCount(cpu)
    \/ \E frame \in ConcurrentFrames : CallLockFrame(frame)
    \/ \E frame \in ConcurrentFrames : CallFreeFrame(frame)

SpecCount == Init /\ [][NextCount]_vars

(* ------------------------------ Address -------------------------------- *)

\* A usize is held as its bits 47..63 (high, a number below 2^17) and its
\* bits 0..46 (low, by its representative: low >= 0 stands for itself and
\* low < 0 for 2^47 + low).
HIGH_SPACE == 131072

\* addr >> 47 of a sign-extended address with bit 47 set.
CANONICAL_ONES == 131071

\* The values of addr >> 47 for which addr >> 52 is 0.
PHYSICAL_HIGH == 32

Word(high, low) == [high |-> high, low |-> low]

\* self.value + rhs: the wrapped sum and whether the addition overflowed.
word_add(a, b) ==
    LET carry == IF (a.low < 0 /\ b.low < 0)
                     \/ (a.low < 0 /\ b.low >= 0 /\ a.low + b.low >= 0)
                     \/ (a.low >= 0 /\ b.low < 0 /\ a.low + b.low >= 0)
                 THEN 1 ELSE 0
    IN  [value |-> Word((a.high + b.high + carry) % HIGH_SPACE, a.low + b.low),
         overflow |-> a.high + b.high + carry >= HIGH_SPACE]

\* self.value - rhs: the wrapped difference and whether the subtraction
\* overflowed.
word_sub(a, b) ==
    LET borrow == IF (a.low >= 0 /\ b.low < 0)
                      \/ (a.low >= 0 /\ b.low >= 0 /\ a.low < b.low)
                      \/ (a.low < 0 /\ b.low < 0 /\ a.low < b.low)
                  THEN 1 ELSE 0
    IN  [value |-> Word((a.high - b.high - borrow) % HIGH_SPACE, a.low - b.low),
         overflow |-> a.high - b.high - borrow < 0]

\* What a constructor gives: the address built, or the panic.
Built(value) == [value |-> value, panic |-> ""]

Refused(addr, message) == [value |-> addr, panic |-> message]

\* Address<Physical>::new taking every address.
Physical_new_unchecked(addr) == Built(addr)

\* Address<Physical>::new(addr)
Physical_new(addr) ==
    IF addr.high \div PHYSICAL_HIGH = 0
    THEN Built(addr)
    ELSE Refused(addr, "given address is not canonical (bits 52..64 contain data)")

\* Address<Physical>::new_truncate(addr): addr & 0xFFFFFFFFFFFFF
Physical_new_truncate(addr) == Built(Word(addr.high % PHYSICAL_HIGH, addr.low))

\* Address<Physical> + rhs
Physical_add(build, self, rhs) ==
    IF word_add(self, rhs).overflow /\ overflow_checks(build)
    THEN Refused(self, "attempt to add with overflow")
    ELSE Physical_new(word_add(self, rhs).value)

\* Address<Physical> - rhs
Physical_sub(build, self, rhs) ==
    IF word_sub(self, rhs).overflow /\ overflow_checks(build)
    THEN Refused(self, "attempt to subtract with overflow")
    ELSE Physical_new(word_sub(self, rhs).value)

\* Address<Virtual>::new_truncate(addr): (((addr << 16) as isize) >> 16) as usize
Virtual_new_truncate(addr) ==
    Built(Word(IF addr.high % 2 = 1 THEN CANONICAL_ONES ELSE 0, addr.low))

\* Address<Virtual>::new with the sign extension left out.
Virtual_new_plain(addr) ==
    IF addr.high \in {0, 1, CANONICAL_ONES}
    THEN Built(addr)
    ELSE Refused(addr, "given address is not canonical (bits 48..64 contain data)")

\* Address<Virtual>::new(addr)
Virtual_new(addr) ==
    IF addr.high \in {0, CANONICAL_ONES} THEN Built(addr)
    ELSE IF addr.high = 1 THEN Virtual_new_truncate(addr)
    ELSE Refused(addr, "given address is not canonical (bits 48..64 contain data)")

\* Address<Virtual> + rhs
Virtual_add(build, self, rhs) ==
    IF word_add(self, rhs).overflow /\ overflow_checks(build)
    THEN Refused(self, "attempt to add with overflow")
    ELSE Virtual_new(word_add(self, rhs).value)

\* Address<Virtual> - rhs
Virtual_sub(build, self, rhs) ==
    IF word_sub(self, rhs).overflow /\ overflow_checks(build)
    THEN Refused(self, "attempt to subtract with overflow")
    ELSE Virtual_new(word_sub(self, rhs).value)

\* The values of bits 47..63 the callers pass: around 0, around the end of
\* the physical range, the middle, and the top.
Highs ==
    {0, 1, 2, PHYSICAL_HIGH - 1, PHYSICAL_HIGH, PHYSICAL_HIGH + 1,
     HIGH_SPACE \div 2, CANONICAL_ONES - 1, CANONICAL_ONES}

\* The values of bits 0..46 the callers pass: 0, 1 and 2^47 - 1.
Lows == {0, 1, -1}

Words == {Word(high, low) : high \in Highs, low \in Lows}

\* The operations on addresses of each kind; the address built is the
\* call's result, and + and - act on the address the last call built.
PhysicalOps == {"Physical::new", "Physical::new_truncate", "Physical::add", "Physical::sub"}

VirtualOps == {"Virtual::new", "Virtual::new_truncate", "Virtual::add", "Virtual::sub"}

\* The call of op gives result r.
Constructing(op, args, r) ==
    /\ CanCall
    /\ Calling(op, args, r.value)
    /\ panic' = r.panic
    /\ UNCHANGED <<map, addressor, meta, memory_map, memory, content, profile,
                   live, stale, owned>>

CallPhysicalNew(addr) ==
    /\ addr \in Words
    /\ Constructing("Physical::new", <<addr>>, Physical_new(addr))

CallPhysicalNewTruncate(addr) ==
    /\ addr \in Words
    /\ Constructing("Physical::new_truncate", <<addr>>, Physical_new_truncate(addr))

CallPhysicalAdd(rhs) ==
    /\ last.op \in PhysicalOps
    /\ Constructing("Physical::add", <<last.ret, rhs>>, Physical_add(profile, last.ret, rhs))

CallPhysicalSub(rhs) ==
    /\ last.op \in PhysicalOps
    /\ Constructing("Physical::sub", <<last.ret, rhs>>, Physical_sub(profile, last.ret, rhs))

CallVirtualNew(addr) ==
    /\ addr \in Words
    /\ Constructing("Virtual::new", <<addr>>, Virtual_new(addr))

CallVirtualNewTruncate(addr) ==
    /\ addr \in Words
    /\ Constructing("Virtual::new_truncate", <<addr>>, Virtual_new_truncate(addr))

CallVirtualAdd(rhs) ==
    /\ last.op \in VirtualOps
    /\ Constructing("Virtual::add", <<last.ret, rhs>>, Virtual_add(profile, last.ret, rhs))

CallVirtualSub(rhs) ==
    /\ last.op \in VirtualOps
    /\ Constructing("Virtual::sub", <<last.ret, rhs>>, Virtual_sub(profile, last.ret, rhs))

NextAddr ==
    \/ \E addr \in Words : CallPhysicalNew(addr)
    \/ \E addr \in Words : CallPhysicalNewTruncate(addr)
    \/ \E rhs \in Words : CallPhysicalAdd(rhs)
    \/ \E rhs \in Words : CallPhysicalSub(rhs)
    \/ \E addr \in Words : CallVirtualNew(addr)
    \/ \E addr \in Words : CallVirtualNewTruncate(addr)
    \/ \E rhs \in Words : CallVirtualAdd(rhs)
    \/ \E rhs \in Words : CallVirtualSub(rhs)

SpecAddr == Init /\ [][NextAddr]_vars

(* -------------------------------- MMIO ---------------------------------- *)

\* offset < max on usize.
word_lt(a, b) ==
    \/ a.high < b.high
    \/ /\ a.high = b.high
       /\ \/ a.low >= 0 /\ b.low < 0
          \/ (a.low >= 0) = (b.low >= 0) /\ a.low < b.low

\* An MMIO<Mapped>: its frames and the address they are mapped at.
MMIO_Mapped(frames, mapped_addr) == [frames |-> frames, mapped_addr |-> mapped_addr]

\* MMIO::max_offset(): frames.len() * 0x1000
max_offset(self) == Word(0, FrameIterator_len(self.frames) * FRAME_SIZE)

\* The bound test passing every offset.
mapped_offset_unbounded(build, self, offset) == [err |-> "", ptr |-> Virtual_add(build, self.mapped_addr, offset)]

\* mapped_offset and mapped_offset_mut: Ok(the pointer), with the panic the
\* addition may end in, or Err(OffsetOverrun).
mapped_offset(build, self, offset) ==
    IF word_lt(offset, max_offset(self))
    THEN [err |-> "", ptr |-> Virtual_add(build, self.mapped_addr, offset)]
    ELSE [err |-> "OffsetOverrun", ptr |-> Built(Word(0, 0))]

\* read, read_mut and write: what the call returns, the memory accesses it
\* makes (each the kind of access and its address) and the panic it ends in.
MMIO_access(kind, found) ==
    IF found.err # "" THEN [result |-> found.err, accesses |-> {}, panic |-> ""]
    ELSE IF found.ptr.panic # "" THEN [result |-> "", accesses |-> {}, panic |-> found.ptr.panic]
    ELSE [result |-> "Ok", accesses |-> {<<kind, found.ptr.value>>}, panic |-> ""]

MMIO_write(build, self, offset) == MMIO_access("write", mapped_offset(build, self, offset))

MMIO_read(build, self, offset) == MMIO_access("read", mapped_offset(build, self, offset))

MMIO_read_mut(build, self, offset) == MMIO_access("read_mut", mapped_offset(build, self, offset))

\* The mapped regions: one or two frames, mapped in the lower and in the
\* upper half of the address space.
Regions ==
    {MMIO_Mapped(FrameIterator(start, len), mapped_addr) :
        start \in {2}, len \in {1, 2},
        mapped_addr \in {Word(0, 2 * FRAME_SIZE), Word(CANONICAL_ONES, FRAME_SIZE)}}

\* The offsets the callers pass: inside a region, at its bound and far above.
Offsets ==
    {Word(0, 0), Word(0, FRAME_SIZE - 1), Word(0, FRAME_SIZE), Word(0, (2 * FRAME_SIZE) - 1),
     Word(0, 2 * FRAME_SIZE), Word(0, -1), Word(1, 0), Word(CANONICAL_ONES, -1)}

\* A call on a mapped region.
Accessing(op, self, offset, r) ==
    /\ CanCall
    /\ Calling(op, <<self, offset>>, [result |-> r.result, accesses |-> r.accesses])
    /\ panic' = r.panic
    /\ UNCHANGED <<map, addressor, meta, memory_map, memory, content, profile,
                   live, stale, owned>>

CallMmioWrite(self, offset) ==
    /\ self \in Regions
    /\ Accessing("MMIO::write", self, offset, MMIO_write(profile, self, offset))

CallMmioRead(self, offset) ==
    /\ self \in Regions
    /\ Accessing("MMIO::read", self, offset, MMIO_read(profile, self, offset))

CallMmioReadMut(self, offset) ==
    /\ self \in Regions
    /\ Accessing("MMIO::read_mut", self, offset, MMIO_read_mut(profile, self, offset))

NextMmio ==
    \/ \E self \in Regions, offset \in Offsets : CallMmioWrite(self, offset)
    \/ \E self \in Regions, offset \in Offsets : CallMmioRead(self, offset)
    \/ \E self \in Regions, offset \in Offsets : CallMmioReadMut(self, offset)

SpecMmio == Init /\ [][NextMmio]_vars

(* ------------------------------ BootInfo -------------------------------- *)

\* 0xAABB11FF, a u32 held as its upper and lower 16 bits.
MAGIC == <<43707, 4607>>

\* BootInfo::new(memory_map, config_table, framebuffer)
BootInfo_new(memory_map_len, config_table_len, framebuffer) ==
    [memory_map_len |-> memory_map_len, config_table_len |-> config_table_len,
     magic |-> MAGIC,
     framebuffer |-> IF framebuffer = "None" THEN "FFIOption::None" ELSE "FFIOption::Some"]

\* The validation left out.
validate_magic_skipped(self) == ""

\* BootInfo::validate_magic(): the panic it ends in, "" when it returns.
validate_magic(self) ==
    IF self.magic = MAGIC THEN ""
    ELSE "boot_info is unaligned, or magic is otherwise corrupted"

\* The blocks of BootInfo::new.
BuiltBlocks ==
    {BootInfo_new(memory_map_len, config_table_len, framebuffer) :
        memory_map_len \in {0, 1, 2}, config_table_len \in {0, 1},
        framebuffer \in {"None", "Some"}}

\* The blocks the kernel is handed: those of BootInfo::new, and the same
\* memory read with another magic (zeroed, one bit off, halves exchanged, the
\* halves of another layout).
Blocks ==
    {[block EXCEPT !.magic = magic] :
        block \in BuiltBlocks,
        magic \in {MAGIC, <<0, 0>>, <<43707, 4606>>, <<4607, 43707>>, <<43706, 4607>>}}

CallBootInfoNew(memory_map_len, config_table_len, framebuffer) ==
    /\ CanCall
    /\ Calling("BootInfo::new", <<memory_map_len, config_table_len, framebuffer>>,
               BootInfo_new(memory_map_len, config_table_len, framebuffer))
    /\ UNCHANGED <<map, addressor, meta, memory_map, memory, content, panic, profile,
                   live, stale, owned>>

CallValidateMagic(self) ==
    /\ CanCall
    /\ Calling("validate_magic", <<self>>, 0)
    /\ panic' = validate_magic(self)
    /\ UNCHANGED <<map, addressor, meta, memory_map, memory, content, profile,
                   live, stale, owned>>

NextBootInfo ==
    \/ \E block \in BuiltBlocks :
          CallBootInfoNew(block.memory_map_len, block.config_table_len,
                          IF block.framebuffer = "FFIOption::None" THEN "None" ELSE "Some")
    \/ \E self \in Blocks : CallValidateMagic(self)

SpecBootInfo == Init /\ [][NextBootInfo]_vars

(* ----------------------------- interrupts ------------------------------- *)

\* The interrupt flag of RFLAGS after sti, after cli, and as are_enabled()
\* reads it.
enable(flag) == TRUE

disable(flag) == FALSE

are_enabled(flag) == flag

RECURSIVE run_function(_, _, _)
RECURSIVE without_interrupts(_, _)

\* without_interrupts enabling interrupts on its way out whatever it found.
without_interrupts_enabling(function, flag) ==
    LET Out(r) == [flag |-> enable(r.flag), seen |-> r.seen]
    IN  Out(run_function(function, disable(flag), {disable(flag)}))

\* The closure handed to without_interrupts, run from its instruction i on:
\* a sequence of calls of enable(), disable() and without_interrupts(|| ()).
\* It gives the flag it leaves and the values the flag took while it ran.
run_function(function, flag, seen) ==
    IF function = << >> THEN [flag |-> flag, seen |-> seen]
    ELSE LET Rest(after) == run_function(Tail(function), after.flag, seen \cup after.seen)
         IN  Rest(IF Head(function) = "enable" THEN [flag |-> enable(flag), seen |-> {enable(flag)}]
                  ELSE IF Head(function) = "disable" THEN [flag |-> disable(flag), seen |-> {disable(flag)}]
                  ELSE without_interrupts(<< >>, flag))

\* without_interrupts(function), entered with the interrupt flag at flag.
without_interrupts(function, flag) ==
    LET interrupts_enabled == are_enabled(flag)
        Out(r) == [flag |-> IF interrupts_enabled THEN enable(r.flag) ELSE r.flag,
                   seen |-> r.seen]
        In(entered) == Out(run_function(function, entered, {entered}))
    IN  In(IF interrupts_enabled THEN disable(flag) ELSE flag)

\* The closures: up to two calls.
Functions ==
    {<< >>} \cup {<<a>> : a \in {"enable", "disable", "without_interrupts"}}
            \cup {<<a, b>> : a \in {"enable", "disable", "without_interrupts"},
                             b \in {"enable", "disable", "without_interrupts"}}

InterruptOps == {"enable", "disable", "without_interrupts_call"}

\* The calls; the flag a call finds is the one the call before it left.
CallEnable ==
    /\ CanCall
    /\ Calling("enable", << >>, [flag |-> enable(FALSE), seen |-> {}])
    /\ UNCHANGED <<map, addressor, meta, memory_map, memory, content, panic, profile,
                   live, stale, owned>>

CallDisable ==
    /\ CanCall
    /\ Calling("disable", << >>, [flag |-> disable(TRUE), seen |-> {}])
    /\ UNCHANGED <<map, addressor, meta, memory_map, memory, content, panic, profile,
                   live, stale, owned>>

CallWithoutInterrupts(function) ==
    /\ CanCall
    /\ last.op \in InterruptOps
    /\ Calling("without_interrupts_call", <<function, last.ret.flag>>,
               without_interrupts(function, last.ret.flag))
    /\ UNCHANGED <<map, addressor, meta, memory_map, memory, content, panic, profile,
                   live, stale, owned>>

NextInterrupts ==
    \/ CallEnable
    \/ CallDisable
    \/ \E function \in Functions : CallWithoutInterrupts(function)

SpecInterrupts == Init /\ [][NextInterrupts]_vars

(* ----------------- concurrent frame state transitions ----------------- *)

\* The first half of free_frame, lock_frame and reserve_frame, which runs
\* before the lock on the counters is taken: memory_map.set_eq(index, new,
\* expected), and the panic when the frame is not in the expected state.
transition_set(s, op, frame) ==
    IF op = "free_frame"
    THEN IF set_eq_ok(s, frame, "Allocated") THEN set_eq(s, frame, "Unallocated")
         ELSE Panic(s, "attempted to reserve a non-free frame")
    ELSE IF set_eq_ok(s, frame, "Unallocated")
    THEN set_eq(s, frame, IF op = "lock_frame" THEN "Allocated" ELSE "Reserved")
    ELSE Panic(s, "attempted to reserve a non-free frame")

\* The second half: let mut memory = self.memory.write(), and the two
\* counter updates under that lock.
transition_count(s, op) ==
    IF op = "free_frame"
    THEN Then(Then(s, "free_memory", FRAME_SIZE, FALSE), "used_memory", FRAME_SIZE, TRUE)
    ELSE Then(Then(s, "free_memory", FRAME_SIZE, TRUE),
              IF op = "lock_frame" THEN "used_memory" ELSE "reserved_memory",
              FRAME_SIZE, FALSE)

TransitionOps == {"free_frame", "lock_frame", "reserve_frame"}

\* A CPU enters a transition and runs it up to the lock on the counters.
BeginTransition(cpu, op, frame) ==
    /\ CanCall
    /\ callers[cpu].pc = "idle"
    /\ Becomes(transition_set(State, op, frame))
    /\ callers' = [callers EXCEPT ![cpu] = [pc |-> "counters", op |-> op, frame |-> frame]]
    /\ calls' = calls + 1
    /\ UNCHANGED <<live, stale, owned, last>>

\* The CPU takes the writer lock, updates the counters and returns.
FinishTransition(cpu) ==
    /\ panic = ""
    /\ callers[cpu].pc = "counters"
    /\ Becomes(transition_count(State, callers[cpu].op))
    /\ callers' = [callers EXCEPT ![cpu] = Caller_idle]
    /\ last' = Call(callers[cpu].op, <<callers[cpu].frame>>, 0)
    /\ UNCHANGED <<live, stale, owned, calls>>

\* free_memory(), locked_memory() and reserved_memory(), each under the
\* reader lock, by a CPU that is not inside a transition.
ReadCounter(cpu, field) ==
    /\ CanCall
    /\ callers[cpu].pc = "idle"
    /\ Calling(field, << >>, memory[field])
    /\ UNCHANGED <<map, addressor, meta, memory_map, memory, content, panic, profile,
                   live, stale, owned>>

NextTransitions ==
    \/ \E cpu \in Callers, op \in TransitionOps, frame \in ConcurrentFrames :
          BeginTransition(cpu, op, frame)
    \/ \E cpu \in Callers : FinishTransition(cpu)
    \/ \E cpu \in Callers, field \in {"free_memory", "used_memory", "reserved_memory"} :
          ReadCounter(cpu, field)

SpecTransitions == Init /\ [][NextTransitions]_vars

(* ------------------------ C11: identity_map --------------------------- *)

\* C11: identity_map(frame, ..) on a BlockPage that has a set bit panics and
\* leaves that BlockPage's bits as they were; a call that returns found the
\* BlockPage empty and leaves it full.
C11_IdentityMapAssertsEmpty ==
    [][(calls' = calls + 1 /\ last'.op \in {"identity_map", "raw_identity_map"}) =>
          IF ~is_empty(PageAt(map, last'.args[1]))
          THEN /\ panic' # ""
               /\ PageAt(map', last'.args[1]) = PageAt(map, last'.args[1])
          ELSE panic' = "" => is_full(PageAt(map', last'.args[1]))]_vars

(* ------------------------ C12, C13: grow ------------------------------- *)

\* The step is a call of grow, the kernel's or libkernel's, that returned.
Grew == calls' = calls + 1 /\ last'.op \in {"grow", "raw_grow"} /\ panic' = ""

\* The BlockPages the map had are unchanged and the ones added are empty.
MapExtended ==
    /\ Len(map') >= Len(map)
    /\ \A i \in 1 .. Len(map) : map'[i] = map[i]
    /\ \A i \in (Len(map) + 1) .. Len(map') : is_empty(map'[i])

\* C12: a grow that returns leaves every BlockPage that existed with the
\* bits it had, every mapped heap page and every page of the map itself
\* mapped to the frame it was mapped to, and appends only empty BlockPages.
C12_GrowKeepsAllocations ==
    [][Grew =>
          /\ MapExtended
          /\ addressor' = addressor
          /\ \A offset \in DOMAIN meta :
                offset \in DOMAIN meta' /\ meta'[offset] = meta[offset]]_vars

\* A grow returned on a heap that holds an allocation, and the map is longer
\* than one page of the map holds.
C12_Witness ==
    /\ last.op = "grow"
    /\ panic = ""
    /\ <<0, 16>> \in live
    /\ BlockIsSet(map, 0)
    /\ 0 \in DOMAIN addressor
    /\ Len(map) > FRAME_SIZE \div BLOCK_PAGE_BYTES

IsPowerOfTwo(n) == \E k \in 0 .. 16 : n = 2 ^ k

\* The pages of the map itself that the step mapped.
MetaAdded == DOMAIN meta' \ DOMAIN meta

\* C13: a kernel grow(required_blocks), required_blocks > 0, that returns
\* leaves a power of two of map pages, more than before by enough pages to
\* track required_blocks more blocks; each added page is mapped to a frame of
\* its own that was Unallocated and is now Allocated, no other frame changed
\* state, and no block was allocated.
C13_GrowDoublesMetadata ==
    [][(Grew /\ last'.op = "grow" /\ last'.args[1] > 0) =>
          /\ DOMAIN meta = 0 .. (Cardinality(DOMAIN meta) - 1)
          /\ DOMAIN meta' = 0 .. (Cardinality(DOMAIN meta') - 1)
          /\ IsPowerOfTwo(Cardinality(DOMAIN meta'))
          /\ Cardinality(DOMAIN meta') > Cardinality(DOMAIN meta)
          /\ Cardinality(MetaAdded) * BLOCKS_PER_MAP_PAGE >= last'.args[1]
          /\ Len(map') * BLOCK_COUNT = Cardinality(DOMAIN meta') * BLOCKS_PER_MAP_PAGE
          /\ \A offset \in MetaAdded :
                /\ memory_map[meta'[offset]] = "Unallocated"
                /\ memory_map'[meta'[offset]] = "Allocated"
                /\ \A other \in MetaAdded :
                      other # offset => meta'[other] # meta'[offset]
          /\ {frame \in Frames : memory_map'[frame] # memory_map[frame]}
                = {meta'[offset] : offset \in MetaAdded}
          /\ MapExtended
          /\ addressor' = addressor
          /\ live' = live]_vars

\* A grow returned and left the map on four pages.
C13_Witness ==
    /\ last.op = "grow"
    /\ panic = ""
    /\ Cardinality(DOMAIN meta) = 4
    /\ Len(map) = 4 * (FRAME_SIZE \div BLOCK_PAGE_BYTES)

(* ------------------------ C14: lock_next ------------------------------- *)

\* The frames that are Unallocated before the step.
UnallocatedBefore == {frame \in DOMAIN memory_map : memory_map[frame] = "Unallocated"}

\* C14: lock_next() returns None exactly when no frame is Unallocated, and
\* then changes nothing; otherwise it returns the lowest-indexed Unallocated
\* frame and changes that frame, and no other, to Allocated.
C14_LockNextLowest ==
    [][(calls' = calls + 1 /\ last'.op = "lock_next") =>
          /\ panic' = ""
          /\ IF UnallocatedBefore = {}
             THEN last'.ret = -1 /\ memory_map' = memory_map
             ELSE /\ last'.ret \in UnallocatedBefore
                  /\ \A frame \in UnallocatedBefore : last'.ret <= frame
                  /\ memory_map' = [memory_map EXCEPT ![last'.ret] = "Allocated"]]_vars

\* lock_next returned a frame above a lower frame that a caller had locked
\* and above one still Unallocated.
C14_Witness ==
    /\ last.op = "lock_next"
    /\ last.ret = 3
    /\ memory_map[2] = "Allocated"
    /\ memory_map[3] = "Allocated"
    /\ memory_map[4] = "Unallocated"

\* lock_next returned None: no frame is Unallocated.
C14_WitnessNone ==
    /\ last.op = "lock_next"
    /\ last.ret = -1
    /\ \A frame \in DOMAIN memory_map : memory_map[frame] # "Unallocated"

(* ------------------------ C18: the byte counters ---------------------- *)

\* The counters after a successful call of op, from the counters before it.
CountersAfter(op) ==
    IF op = "free_frame"
    THEN [memory EXCEPT !.free_memory = @ + FRAME_SIZE, !.used_memory = @ - FRAME_SIZE]
    ELSE IF op = "lock_frame"
    THEN [memory EXCEPT !.free_memory = @ - FRAME_SIZE, !.used_memory = @ + FRAME_SIZE]
    ELSE [memory EXCEPT !.free_memory = @ - FRAME_SIZE, !.reserved_memory = @ + FRAME_SIZE]

\* C18: a free_frame, lock_frame or reserve_frame that returns has moved
\* 4096 bytes between two counters (free_memory and used_memory, or
\* free_memory and reserved_memory for reserve_frame) and left the others; no
\* call changes total_memory.
C18_CountersMove ==
    [][/\ memory'.total_memory = memory.total_memory
       /\ (Returned("free_frame") \/ Returned("lock_frame") \/ Returned("reserve_frame"))
             => memory' = CountersAfter(last'.op)]_vars

\* A frame was locked and freed again: the counters are back where they were.
C18_Witness ==
    /\ last = Call("free_frame", <<2>>, 0)
    /\ panic = ""
    /\ calls = 2
    /\ memory.used_memory = 0
    /\ memory.free_memory = memory.total_memory - memory.reserved_memory

(* ------------------------ C19, C20: initialization -------------------- *)

\* The state is the one from_mmap left: no call has been made since.
Initialized == calls = 0 /\ last.op = "from_mmap"

\* The frames start, start + 1, .. of a run of count frames, in order.
RunOf(start, count) == [k \in 1 .. count |-> start + (k - 1)]

\* The number of frames the bitmap of the present allocator takes: two bits
\* for each frame it represents.
BitmapPages ==
    align_up_div((Cardinality(DOMAIN memory_map) * BIT_WIDTH) \div 8, FRAME_SIZE)

\* The frames holding the bitmap: it is placed at the start of the first
\* descriptor of mmap that is large enough.
BitmapFrames(mmap) ==
    LET host == CHOOSE i \in 1 .. Len(mmap) :
                    /\ mmap[i].page_count >= BitmapPages
                    /\ \A j \in 1 .. (i - 1) : mmap[j].page_count < BitmapPages
    IN  RunOf(mmap[host].phys_start \div FRAME_SIZE, BitmapPages)

\* The frames of the firmware-reserved descriptors i, i + 1, .. of mmap, in order.
RECURSIVE FirmwareFrames(_, _)
FirmwareFrames(mmap, i) ==
    IF i > Len(mmap) THEN << >>
    ELSE (IF mmap[i].ty = "RESERVED"
          THEN RunOf(mmap[i].phys_start \div FRAME_SIZE, mmap[i].page_count)
          ELSE << >>) \o FirmwareFrames(mmap, i + 1)

\* The order of the reservations: the null frame, the bitmap's frames, the
\* firmware-reserved frames.
ReserveOrder(mmap) == <<0>> \o BitmapFrames(mmap) \o FirmwareFrames(mmap, 1)

\* Exactly the first k frames of order are Reserved; every other frame is
\* Unallocated.
ReservedUpTo(order, k) ==
    \A frame \in DOMAIN memory_map :
        memory_map[frame] = IF \E n \in 1 .. k : order[n] = frame THEN "Reserved"
                            ELSE "Unallocated"

C20_ScenarioInit ==
    (Initialized /\ last.args[1] \in {ScenarioMap, ScenarioMapUsableFirst}) =>
        /\ panic = ""
        /\ Cardinality({frame \in DOMAIN memory_map : memory_map[frame] = "Reserved"})
              = 16 + BitmapPages
        /\ memory.free_memory = memory.total_memory - memory.reserved_memory

(* ------------------------ C15, C16: lock_next_count -------------------- *)

\* The step is a call of lock_next_count that returned.
LockedCount == calls' = calls + 1 /\ last'.op = "lock_next_count" /\ panic' = ""

\* The frames at which a run of n Unallocated frames starts before the step.
RunsBefore(n) == {frame \in DOMAIN memory_map : \A k \in 0..(n - 1) : frame + k \in DOMAIN memory_map /\ memory_map[frame + k] = "Unallocated"}

\* The frames of a returned range, its upper end counted in or not.
RangeFrames(ret, inclusive) == ret[1]..(IF inclusive THEN ret[2] ELSE ret[2] - 1)

\* C15: lock_next_count(n), for n >= 1, returns the lowest-indexed run of n
\* contiguous Unallocated frames and marks the whole run Allocated whenever
\* such a run exists, and returns None only when there is no such run.
C15_LockNextCountFirstRun ==
    [][(calls' = calls + 1 /\ last'.op = "lock_next_count" /\ last'.args[1] >= 1) =>
          /\ panic' = ""
          /\ IF RunsBefore(last'.args[1]) = {}
             THEN last'.ret = None /\ memory_map' = memory_map
             ELSE /\ last'.ret # None
                  /\ last'.ret[1] \in RunsBefore(last'.args[1])
                  /\ \A frame \in RunsBefore(last'.args[1]) : last'.ret[1] <= frame
                  /\ memory_map' =
                        [frame \in DOMAIN memory_map |->
                            IF frame \in last'.ret[1]..(last'.ret[1] + last'.args[1] - 1)
                            THEN "Allocated" ELSE memory_map[frame]]]_vars

\* C16: whenever lock_next_count(n) returns a range, the range holds exactly
\* n frames, each Unallocated before the call and Allocated after it, and
\* no frame outside the range changed state (under one of the two readings
\* of the range's upper end).
C16_RangeIsTheRun ==
    [][(LockedCount /\ last'.ret # None) =>
          \E inclusive \in BOOLEAN :
              /\ Cardinality(RangeFrames(last'.ret, inclusive)) = last'.args[1]
              /\ RangeFrames(last'.ret, inclusive) \subseteq DOMAIN memory_map
              /\ \A frame \in RangeFrames(last'.ret, inclusive) :
                    memory_map[frame] = "Unallocated" /\ memory_map'[frame] = "Allocated"
              /\ \A frame \in DOMAIN memory_map \ RangeFrames(last'.ret, inclusive) :
                    memory_map'[frame] = memory_map[frame]]_vars

(* ------------------------ C17: concurrent callers ---------------------- *)

\* The caller has read a frame as Unallocated and has neither given the run
\* up nor finished marking it.
Scanning(t) == t.pc \in {"inner", "check", "mark"}

\* The caller's call has returned a range.
Ranged(t) == t.pc = "done" /\ t.ret # None

\* C17: under any interleaving of concurrent lock_next_count callers, the
\* check for Unallocated frames and the marking of the run are one serialized
\* step (no two callers are between their check and the end of their marking
\* at once), and the ranges returned to different callers do not overlap
\* (under one of the two readings of a range's upper end).
C17_CallersSerialized ==
    \A cpu \in Callers : \A other \in Callers \ {cpu} :
        /\ ~(Scanning(callers[cpu]) /\ Scanning(callers[other]))
        /\ (Ranged(callers[cpu]) /\ Ranged(callers[other])) =>
               \E inclusive \in BOOLEAN :
                   RangeFrames(callers[cpu].ret, inclusive)
                       \cap RangeFrames(callers[other].ret, inclusive) = {}

(* ------------------------ C21: total memory ---------------------------- *)

\* from_mmap returned an allocator.
Completed == Initialized /\ panic = ""

\* The end of a descriptor's region.
EndOf(descriptor) == descriptor.phys_start + descriptor.page_count * FRAME_SIZE

\* The greatest end of the descriptors of mmap.
MaxEnd(mmap) == CHOOSE end \in {EndOf(mmap[i]) : i \in 1 .. Len(mmap)} : \A j \in 1 .. Len(mmap) : EndOf(mmap[j]) <= end

\* The descriptors of mmap are not empty and no two of them overlap.
Disjoint(mmap) ==
    /\ \A i \in 1 .. Len(mmap) : mmap[i].page_count >= 1
    /\ \A i \in 1 .. Len(mmap) : \A j \in 1 .. Len(mmap) :
          i # j => (EndOf(mmap[i]) <= mmap[j].phys_start \/ EndOf(mmap[j]) <= mmap[i].phys_start)

\* The allocator represents bytes of memory and its bitmap has a state for
\* every frame below that bound.
Represents(bytes) ==
    /\ memory.total_memory = bytes
    /\ DOMAIN memory_map = 0 .. ((bytes \div FRAME_SIZE) - 1)

\* C21 as stated: for every memory map, the total memory the allocator
\* represents is the greatest descriptor.start + descriptor.page_count * 4096
\* over all descriptors, and the bitmap covers every frame below that bound.
C21_TotalIsMaxEnd == Completed => Represents(MaxEnd(last.args[1]))

\* C21, amended: the same, for memory maps whose descriptors are not empty
\* and do not overlap.
C21_TotalIsMaxEndDisjoint ==
    (Completed /\ Disjoint(last.args[1])) => Represents(MaxEnd(last.args[1]))

\* from_mmap returned on a map of disjoint descriptors whose highest region
\* is not listed last.
C21_Witness ==
    /\ Completed
    /\ Disjoint(last.args[1])
    /\ Len(last.args[1]) = 2
    /\ last.args[1][1].phys_start > last.args[1][2].phys_start
    /\ memory.total_memory = 5 * FRAME_SIZE

(* ------------------------ C22: the bitmap's place ---------------------- *)

\* The pages the bitmap of mmap's memory takes: two bits for each frame
\* below the end of the highest descriptor.
NeededPages(mmap) ==
    align_up_div(((EndOf(max_by_phys_start(mmap)) \div FRAME_SIZE) * BIT_WIDTH) \div 8, FRAME_SIZE)

\* The descriptors of mmap that can hold the bitmap.
LargeEnough(mmap) == {i \in 1 .. Len(mmap) : mmap[i].page_count >= NeededPages(mmap)}

\* The frames at the start of the first descriptor that can hold the bitmap.
HostFrames(mmap) ==
    LET host == CHOOSE i \in LargeEnough(mmap) : \A j \in LargeEnough(mmap) : i <= j
    IN  {(mmap[host].phys_start \div FRAME_SIZE) + k : k \in 0 .. (NeededPages(mmap) - 1)}

C22_WitnessNone ==
    /\ Initialized
    /\ NeededPages(last.args[1]) = 2
    /\ panic = "failed to find viable memory descriptor for memory map."

(* ------------------------ C23: none available -------------------------- *)

\* The step is a call of lock_next with no Unallocated frame, or a call of
\* lock_next_count(n) with no run of n Unallocated frames (a count above
\* the number of frames has no run).
NoneAvailable ==
    /\ calls' = calls + 1
    /\ \/ last'.op = "lock_next" /\ UnallocatedBefore = {}
       \/ /\ last'.op = "lock_next_count"
          /\ last'.args[1] < 0 \/ RunsBefore(last'.args[1]) = {}

\* The call returned None without a panic and changed no frame's state and
\* no counter.
OrdinaryNone ==
    /\ panic' = ""
    /\ last'.ret = IF last'.op = "lock_next" THEN -1 ELSE << >>
    /\ memory_map' = memory_map
    /\ memory' = memory

Constructed(op) == calls' = calls + 1 /\ last'.op = op

\* Bits 52..63 of the address are all zero.
TopTwelveZero(addr) == addr.high < PHYSICAL_HIGH

\* Bits 47..63 of the address are all equal.
SignExtended(addr) == addr.high = 0 \/ addr.high = CANONICAL_ONES

C25_VirtualCanonical ==
    [][/\ Constructed("Virtual::new") =>
             IF SignExtended(last'.args[1])
             THEN panic' = "" /\ last'.ret = last'.args[1]
             ELSE IF last'.args[1].high = 1
             THEN panic' = "" /\ last'.ret = Word(CANONICAL_ONES, last'.args[1].low)
             ELSE panic' # ""
       /\ (calls' = calls + 1 /\ last'.op \in VirtualOps /\ panic' = "") =>
             SignExtended(last'.ret)]_vars

\* 0x7FFFFFFFFFFF + 1 has bit 47 set and nothing above it: the addition
\* gives the sign-extended 0xFFFF800000000000.
C25_Witness ==
    /\ last.op = "Virtual::add"
    /\ last.args = <<Word(0, -1), Word(0, 1)>>
    /\ panic = ""
    /\ last.ret = Word(CANONICAL_ONES, 0)

(* ------------------------ C26: MMIO offsets ---------------------------- *)

\* The kind of access each operation makes.
AccessKind == [op \in {"MMIO::write", "MMIO::read", "MMIO::read_mut"} |-> IF op = "MMIO::write" THEN "write" ELSE IF op = "MMIO::read" THEN "read" ELSE "read_mut"]

\* C26: read, read_mut and write on a mapped MMIO region with
\* offset >= frames.len() * 4096 return Err(OffsetOverrun) without performing
\* any memory access; with an offset below that bound they access exactly
\* mapped_addr + offset.
C26_OffsetBound ==
    [][(calls' = calls + 1 /\ last'.op \in DOMAIN AccessKind) =>
          /\ panic' = ""
          /\ IF word_lt(last'.args[2], Word(0, last'.args[1].frames.len * FRAME_SIZE))
             THEN /\ last'.ret.result = "Ok"
                  /\ last'.ret.accesses =
                        {<<AccessKind[last'.op],
                           word_add(last'.args[1].mapped_addr, last'.args[2]).value>>}
             ELSE /\ last'.ret.result = "OffsetOverrun"
                  /\ last'.ret.accesses = {}]_vars

\* A write at the last byte of a two-frame region mapped in the upper half.
C26_Witness ==
    /\ last.op = "MMIO::write"
    /\ last.args[1].frames.len = 2
    /\ last.args[1].mapped_addr = Word(CANONICAL_ONES, FRAME_SIZE)
    /\ last.args[2] = Word(0, (2 * FRAME_SIZE) - 1)
    /\ last.ret.accesses = {<<"write", Word(CANONICAL_ONES, (3 * FRAME_SIZE) - 1)>>}

\* A read at the bound of a one-frame region: Err(OffsetOverrun), no access.
C26_WitnessOverrun ==
    /\ last.op = "MMIO::read"
    /\ last.args[1].frames.len = 1
    /\ last.args[2] = Word(0, FRAME_SIZE)
    /\ last.ret = [result |-> "OffsetOverrun", accesses |-> {}]

(* ------------------------ C27: the boot-info magic --------------------- *)

\* C27: validate_magic panics if and only if the block's magic field differs
\* from 0xAABB11FF; a block built by BootInfo::new always passes validation.
C27_MagicValidated ==
    [][Constructed("validate_magic") =>
          /\ panic' # "" <=> last'.args[1].magic # <<43707, 4607>>
          /\ (last.op = "BootInfo::new" /\ last'.args[1] = last.ret) => panic' = ""]_vars

\* A block as BootInfo::new builds it passed validation.
C27_Witness ==
    /\ last.op = "validate_magic"
    /\ last.args[1] = BootInfo_new(2, 1, "Some")
    /\ panic = ""

\* A block whose magic is one bit off: validate_magic panicked.
C27_WitnessCorrupted ==
    /\ last.op = "validate_magic"
    /\ last.args[1].magic = <<43707, 4606>>
    /\ panic = "boot_info is unaligned, or magic is otherwise corrupted"

(* ------------------------ C28: without_interrupts ---------------------- *)

\* The function ran with interrupts disabled throughout, and the flag after
\* the call is the flag before it.
FlagKept ==
    /\ last'.ret.seen = {FALSE}
    /\ last'.ret.flag = last'.args[2]

\* The function itself calls enable().
Enables(function) == \E i \in 1 .. Len(function) : function[i] = "enable"

\* C28 as stated: without_interrupts(f) runs f with interrupts disabled and,
\* after f returns, the interrupt flag equals its value before the call.
C28_FlagRestored == [][Constructed("without_interrupts_call") => FlagKept]_vars

\* C28, amended: the same, for every f that does not itself enable
\* interrupts.
C28_FlagRestoredUnlessEnabled ==
    [][(Constructed("without_interrupts_call") /\ ~Enables(last'.args[1])) => FlagKept]_vars

\* Entered with interrupts disabled, a function that disables them and runs
\* a nested without_interrupts left them disabled.
C28_Witness ==
    /\ last.op = "without_interrupts_call"
    /\ last.args = << <<"disable", "without_interrupts">>, FALSE >>
    /\ last.ret = [flag |-> FALSE, seen |-> {FALSE}]

\* Entered with interrupts enabled: disabled for the function, enabled again
\* after it.
C28_WitnessEnabled ==
    /\ last.op = "without_interrupts_call"
    /\ last.args = << <<"without_interrupts">>, TRUE >>
    /\ last.ret = [flag |-> TRUE, seen |-> {FALSE}]

(* ------------------------ C29: one lock -------------------------------- *)

\* The bytes of the frames that are in the state a counter counts.
BytesIn(field) ==
    FRAME_SIZE * Cardinality({frame \in DOMAIN memory_map :
        memory_map[frame] = IF field = "free_memory" THEN "Unallocated"
                            ELSE IF field = "used_memory" THEN "Allocated" ELSE "Reserved"})

\* C29: a frame's state transition in the bitmap and the matching counter
\* update are performed under one writer lock: a concurrent caller of
\* free_memory, locked_memory or reserved_memory never observes a state in
\* which the bitmap has changed but the counters have not (the counter it
\* reads is the one that matches the bitmap).
C29_CountersMatchBitmap ==
    [][(calls' = calls + 1 /\ last'.op \in {"free_memory", "used_memory", "reserved_memory"}) =>
          last'.ret = BytesIn(last'.op)]_vars

(* ------------------ C30: the search/grow loop of alloc ------------------ *)

\* The layouts of the calls whose loop is followed turn by turn: a run that
\* fits the first map page, one that spans heap pages, and one whose
\* alignment no block but block 0 meets until the map has 32 pages.
LoopLayouts == {<<16, 16>>, <<5000, 16>>, <<16, 1048576>>}

LoopCaller == "cpu0"

\* alloc entered: size_in_blocks and alignment are computed, the loop has
\* not run yet.
EnterAlloc(size, align) ==
    /\ CanCall
    /\ Cardinality(live) < MaxLive
    /\ callers[LoopCaller].pc = "idle"
    /\ callers' = [callers EXCEPT ![LoopCaller] =
                      [pc |-> "search", layout_size |-> size, layout_align |-> align,
                       size_in_blocks |-> (size + (BLOCK_SIZE - 1)) \div BLOCK_SIZE,
                       alignment |-> alloc_alignment(align), grows |-> 0]]
    /\ calls' = calls + 1
    /\ UNCHANGED <<map, addressor, meta, memory_map, memory, content, panic,
                   profile, live, stale, owned, last>>

\* The condition block of the while: one pass of the search.  A run that is
\* too short sends the loop to its body; a run of size_in_blocks leaves the
\* loop, and the rest of alloc marks the blocks and returns the pointer.
StepAllocSearch ==
    /\ Running(State)
    /\ callers[LoopCaller].pc = "search"
    /\ \E t \in {callers[LoopCaller]} :
       \E r \in {alloc_scan(map, t.size_in_blocks, t.alignment)} :
          IF r.current_run < t.size_in_blocks
          THEN /\ callers' = [callers EXCEPT ![LoopCaller].pc = "grow"]
               /\ UNCHANGED <<map, addressor, meta, memory_map, memory, content,
                              panic, profile, live, last>>
          ELSE \E a \in {alloc(State, t.layout_size, t.layout_align)} :
               /\ Becomes(a.s)
               /\ live' = IF Running(a.s) THEN live \cup {<<a.ptr, t.layout_size>>}
                          ELSE live
               /\ last' = Call("alloc", <<t.layout_size, t.layout_align, t.grows>>, a.ptr)
               /\ callers' = [callers EXCEPT ![LoopCaller] = Caller_idle]
    /\ UNCHANGED <<stale, owned, calls>>

\* The body of the while: self.grow(size_in_blocks), then the condition again.
StepAllocGrow ==
    /\ Running(State)
    /\ callers[LoopCaller].pc = "grow"
    /\ \E s \in {grow(State, callers[LoopCaller].size_in_blocks)} : Becomes(s)
    /\ callers' = [callers EXCEPT ![LoopCaller].pc = "search",
                                  ![LoopCaller].grows = @ + 1]
    /\ UNCHANGED <<live, stale, owned, calls, last>>

\* dealloc between two calls of alloc.
DeallocBetween(ptr, size) ==
    /\ callers[LoopCaller].pc = "idle"
    /\ CallDealloc(ptr, size)

StepAlloc == StepAllocSearch \/ StepAllocGrow

\* The call in progress moves to its next position: what a step of the loop
\* does to the caller, without the heap.  While the kernel runs and a call is
\* in its loop a step is possible, and a step is the only thing that moves
\* the caller (StepMovesCaller).
ContinueAlloc ==
    /\ Running(State)
    /\ callers[LoopCaller].pc \in {"search", "grow"}
    /\ \E t \in {callers[LoopCaller]} :
          callers' \in {[callers EXCEPT ![LoopCaller] = moved] :
                           moved \in {[t EXCEPT !.pc = "grow"],
                                      [t EXCEPT !.pc = "search", !.grows = @ + 1],
                                      Caller_idle}}
    /\ callers' # callers

NextLoop ==
    \/ \E layout \in LoopLayouts : EnterAlloc(layout[1], layout[2])
    \/ StepAllocSearch
    \/ StepAllocGrow
    \/ \E a \in live : DeallocBetween(a[1], a[2])

\* The processor keeps executing a call it has entered.
SpecLoop == Init /\ [][NextLoop]_vars /\ WF_callers(ContinueAlloc)

\* Between two states of the loop specification the caller moves exactly when
\* a step of the loop is taken.
StepMovesCaller == [][ContinueAlloc <=> StepAlloc]_vars

InAlloc == callers[LoopCaller].pc \in {"search", "grow"}

Unallocated == {frame \in DOMAIN memory_map : memory_map[frame] = "Unallocated"}

\* The step is the body of the loop and the kernel runs on after it.
GrowStep == StepAllocGrow /\ panic' = ""

\* C30: an alloc call of size >= 1 that entered its search/grow loop leaves
\* it: the call returns its pointer or the kernel halts, and it halts in the
\* loop only on the unwrap of lock_next with no Unallocated frame left; each
\* grow of the loop that returns has taken at least one Unallocated frame
\* and made the map longer.
C30_AllocLoopEnds ==
    /\ (InAlloc /\ callers[LoopCaller].layout_size >= 1) ~> (~InAlloc \/ panic # "")
    /\ [][GrowStep =>
            /\ Len(map') > Len(map)
            /\ Cardinality({frame \in DOMAIN memory_map' :
                               memory_map'[frame] = "Unallocated"})
                   < Cardinality(Unallocated)]_vars
    /\ [][(StepAllocGrow /\ panic' # "") =>
            /\ panic' = UnwrapNone
            /\ {frame \in DOMAIN memory_map' : memory_map'[frame] = "Unallocated"} = {}]_vars

\* A call returned its pointer after its loop grew the map.
C30_Witness ==
    /\ last.op = "alloc"
    /\ last.args[1] >= 1
    /\ last.args[3] >= 1
    /\ panic = ""

\* A call halted in its loop, after two grows, with no Unallocated frame left.
C30_WitnessHalted ==
    /\ InAlloc
    /\ callers[LoopCaller].grows >= 2
    /\ panic = UnwrapNone
    /\ Unallocated = {}

(* ------------------ C31: the stack pointer on relocation ---------------- *)

\* isize of a pointer difference: the 64-bit word read as two's complement.
isize_is_negative(w) == w.high >= HIGH_SPACE \div 2

\* isize::is_positive.
is_positive(w) == ~isize_is_negative(w) /\ w # Word(0, 0)

\* isize::MIN, the one value whose negation overflows.
ISIZE_MIN == Word(HIGH_SPACE \div 2, 0)

\* ptr.offset_from(origin) of *mut u8: the signed distance in bytes.
offset_from(ptr, origin) == word_sub(ptr, origin).value

\* isize::abs, then `as u64`.
isize_abs(build, w) ==
    IF ~isize_is_negative(w) THEN Built(w)
    ELSE IF w = ISIZE_MIN /\ overflow_checks(build)
    THEN Refused(w, "attempt to negate with overflow")
    ELSE Built(word_sub(Word(0, 0), w).value)

\* RSP::add(count), RSP::sub(count): `add rsp, count` and `sub rsp, count`.
RSP_add(rsp, count) == word_add(rsp, count).value

RSP_sub(rsp, count) == word_sub(rsp, count).value

\* The adjustment with the distance always added.
init_stack_pointer_added(build, rsp, stack_base, new_stack_base) ==
    Built(RSP_add(rsp, offset_from(stack_base, new_stack_base)))

\* BlockAllocator::init (kernel), the adjustment of rsp: base_offset is the
\* old base minus the new one; a positive one is subtracted from rsp, any
\* other has its magnitude added.
init_stack_pointer(build, rsp, stack_base, new_stack_base) ==
    LET Adjusted(base_offset, magnitude) ==
            IF magnitude.panic # "" THEN magnitude
            ELSE IF is_positive(base_offset)
            THEN Built(RSP_sub(rsp, magnitude.value))
            ELSE Built(RSP_add(rsp, magnitude.value))
        Offset(base_offset) == Adjusted(base_offset, isize_abs(build, base_offset))
    IN  Offset(offset_from(stack_base, new_stack_base))

\* BlockAllocator::alloc_stack_mapping (libkernel), the adjustment of rsp.
alloc_stack_mapping(build, rsp, cur_stack_base, stack_ptr) ==
    IF word_lt(stack_ptr, cur_stack_base)
    THEN Built(RSP_sub(rsp, word_sub(cur_stack_base, stack_ptr).value))
    ELSE Built(RSP_add(rsp, word_sub(stack_ptr, cur_stack_base).value))

\* The bases of the old stack (physical, page aligned) and of the new one.
StackBases ==
    {Word(0, FRAME_SIZE), Word(0, 2 * FRAME_SIZE), Word(0, 5 * FRAME_SIZE), Word(1, 0),
     Word(1, FRAME_SIZE), Word(PHYSICAL_HIGH - 1, -FRAME_SIZE)}

\* Where rsp points in the old stack, as a distance from its base.
StackOffsets == {0, 8, FRAME_SIZE - 8, FRAME_SIZE + 16}

Relocating(op, old_base, new_base, rsp, r) ==
    /\ CanCall
    /\ Calling(op, <<old_base, new_base, rsp>>, r.value)
    /\ panic' = r.panic
    /\ UNCHANGED <<map, addressor, meta, memory_map, memory, content, profile,
                   live, stale, owned>>

CallInitStack(old_base, new_base, offset) ==
    /\ old_base \in StackBases
    /\ \E rsp \in {word_add(old_base, Word(0, offset)).value} :
          Relocating("init", old_base, new_base, rsp,
                     init_stack_pointer(profile, rsp, old_base, new_base))

CallAllocStackMapping(old_base, new_base, offset) ==
    /\ old_base \in StackBases
    /\ \E rsp \in {word_add(old_base, Word(0, offset)).value} :
          Relocating("alloc_stack_mapping", old_base, new_base, rsp,
                     alloc_stack_mapping(profile, rsp, old_base, new_base))

NextStack ==
    \/ \E old_base \in StackBases, new_base \in StackBases, offset \in StackOffsets :
          CallInitStack(old_base, new_base, offset)
    \/ \E old_base \in StackBases, new_base \in StackBases, offset \in StackOffsets :
          CallAllocStackMapping(old_base, new_base, offset)

SpecStack == Init /\ [][NextStack]_vars

Relocated == last.op \in {"init", "alloc_stack_mapping"} /\ panic = ""

\* C31: after the stack is relocated, by the kernel's init or by libkernel's
\* alloc_stack_mapping, the stack pointer is as far from the new stack base
\* as it was from the old one, whether the new base is above or below.
C31_StackOffsetKept ==
    Relocated =>
        word_sub(last.ret, last.args[2]).value = word_sub(last.args[3], last.args[1]).value

\* The kernel moved the stack pointer to a stack below the old one.
C31_Witness ==
    /\ Relocated
    /\ last.op = "init"
    /\ word_lt(last.args[2], last.args[1])
    /\ last.args[3] # last.args[1]

\* libkernel moved the stack pointer to a stack above the old one.
C31_WitnessAbove ==
    /\ Relocated
    /\ last.op = "alloc_stack_mapping"
    /\ word_lt(last.args[1], last.args[2])

(* ------------------ C32: concurrent callers of lock_next ----------------- *)

\* A caller inside lock_next: the index its loop is at.
lock_next_enter == [pc |-> "scan", index |-> 0, ret |-> None]

\* One turn of the loop with the frame taken whatever its state.
lock_next_step_taking(s, t) ==
    IF t.index >= NumFrames THEN [s |-> s, t |-> [t EXCEPT !.pc = "done", !.ret = None]]
    ELSE [s |-> set_eq(s, t.index, "Allocated"),
          t |-> [t EXCEPT !.pc = "done", !.ret = <<t.index>>]]

\* One turn of `for index in 0..self.memory_map.len()`: the set_eq of the
\* index, which returns the frame when it succeeds; past the last index the
\* call returns None.
lock_next_step(s, t) ==
    IF t.index >= NumFrames THEN [s |-> s, t |-> [t EXCEPT !.pc = "done", !.ret = None]]
    ELSE IF set_eq_ok(s, t.index, "Unallocated")
    THEN [s |-> set_eq(s, t.index, "Allocated"),
          t |-> [t EXCEPT !.pc = "done", !.ret = <<t.index>>]]
    ELSE [s |-> s, t |-> [t EXCEPT !.index = @ + 1]]

EnterLockNext(cpu) ==
    /\ CanCall
    /\ callers[cpu].pc = "idle"
    /\ callers' = [callers EXCEPT ![cpu] = lock_next_enter]
    /\ calls' = calls + 1
    /\ UNCHANGED <<map, addressor, meta, memory_map, memory, content, panic,
                   profile, live, stale, owned, last>>

\* A turn of the loop; a call that returns hands its frame to the caller.
StepLockNext(cpu) ==
    /\ Running(State)
    /\ callers[cpu].pc = "scan"
    /\ \E r \in {lock_next_step(State, callers[cpu])} :
          /\ Becomes(r.s)
          /\ callers' = [callers EXCEPT ![cpu] = IF r.t.pc = "done" THEN Caller_idle ELSE r.t]
          /\ last' = IF r.t.pc = "done" THEN Call("lock_next", <<cpu>>, r.t.ret) ELSE last
          /\ owned' = IF r.t.pc = "done" /\ r.t.ret # None
                      THEN owned \cup {r.t.ret[1]} ELSE owned
    /\ UNCHANGED <<live, stale, calls>>

\* A caller gives back a frame that lock_next returned: free_frame up to the
\* lock on the counters.
BeginFree(cpu, frame) ==
    /\ CanCall
    /\ callers[cpu].pc = "idle"
    /\ frame \in owned
    /\ Becomes(transition_set(State, "free_frame", frame))
    /\ callers' = [callers EXCEPT ![cpu] = [pc |-> "counters", op |-> "free_frame",
                                            frame |-> frame]]
    /\ owned' = owned \ {frame}
    /\ calls' = calls + 1
    /\ UNCHANGED <<live, stale, last>>

NextLockNext ==
    \/ \E cpu \in Callers : EnterLockNext(cpu)
    \/ \E cpu \in Callers : StepLockNext(cpu)
    \/ \E cpu \in Callers, frame \in Frames : BeginFree(cpu, frame)
    \/ \E cpu \in Callers : FinishTransition(cpu)

SpecLockNext == Init /\ [][NextLockNext]_vars

\* The step is the return of Some(frame) from lock_next.
ReturnsFrame(frame) ==
    /\ \E cpu \in Callers : callers[cpu].pc = "scan" /\ callers'[cpu].pc = "idle"
    /\ last'.op = "lock_next"
    /\ last'.ret = <<frame>>

\* C32: under every interleaving of lock_next callers and free_frame calls, a
\* frame that lock_next returns was Unallocated and in no caller's hands when
\* it was taken: a frame returned to one caller is returned again only after
\* it was freed, and an Allocated or Reserved frame is never returned.
C32_NoFrameReturnedTwice ==
    [][\A frame \in Frames :
          ReturnsFrame(frame) =>
              /\ memory_map[frame] = "Unallocated"
              /\ frame \notin owned
              /\ memory_map'[frame] = "Allocated"]_vars

\* Both callers hold a frame from lock_next, after a frame was freed and
\* returned again.
C32_Witness ==
    /\ Cardinality(owned) = 2
    /\ calls >= 4
    /\ last.op = "lock_next"
    /\ \A cpu \in Callers : callers[cpu].pc = "idle"

(* ------------------ C33, C34: the counters over all five calls ---------- *)

NextCounters ==
    \/ \E frame \in Frames : CallFreeFrame(frame)
    \/ \E frame \in Frames : CallLockFrame(frame)
    \/ \E frame \in Frames : CallReserveFrame(frame)
    \/ CallLockNext
    \/ \E count \in LockCounts : CallLockNextCount(count)

SpecCounters == Init /\ [][NextCounters]_vars

\* The counter holds a number of bytes between 0 and total_memory: it has
\* not wrapped below 0 and does not exceed the total.
InRange(field) == memory[field] >= 0 /\ memory[field] <= memory.total_memory

\* C33: in every state reached by reserve_frame, lock_frame, free_frame,
\* lock_next and lock_next_count calls that did not panic, free_memory +
\* used_memory + reserved_memory = total_memory, and no counter has
\* underflowed or exceeds total_memory.
C33_CountersSumToTotal ==
    panic = "" =>
        /\ memory.free_memory + memory.used_memory + memory.reserved_memory
               = memory.total_memory
        /\ InRange("free_memory")
        /\ InRange("used_memory")
        /\ InRange("reserved_memory")

\* C34: in every reachable state used_memory is 4096 times the number of
\* Allocated frames and reserved_memory is 4096 times the number of Reserved
\* frames, also after lock_next or lock_next_count allocated frames and
\* free_frame released them.
C34_CountersAgreeWithBitmap ==
    panic = "" =>
        /\ memory.used_memory = BytesIn("used_memory")
        /\ memory.reserved_memory = BytesIn("reserved_memory")

(* ------------------ C35: two alloc calls interleaved --------------------- *)

PairLayouts == {<<16, 16>>, <<100, 16>>, <<5000, 16>>}

\* A caller runs the loop of alloc: each pass searches under
\* self.map.read() and releases it; the caller is left with the run it
\* selected, block_index and current_run.
SearchAlloc(cpu, size, align) ==
    /\ CanCall
    /\ callers[cpu].pc = "idle"
    /\ \E r \in {alloc_search(State, (size + (BLOCK_SIZE - 1)) \div BLOCK_SIZE,
                              alloc_alignment(align))} :
          /\ Becomes(r.s)
          /\ callers' = [callers EXCEPT ![cpu] =
                            IF Running(r.s)
                            THEN [pc |-> "mark", layout_size |-> size, layout_align |-> align,
                                  block_index |-> r.block_index,
                                  current_run |-> r.current_run]
                            ELSE Caller_idle]
    /\ calls' = calls + 1
    /\ UNCHANGED <<live, stale, owned, last>>

\* The caller takes self.map.write(), marks the run it selected and returns.
MarkAlloc(cpu) ==
    /\ Running(State)
    /\ callers[cpu].pc = "mark"
    /\ \E t \in {callers[cpu]} :
       \E r \in {alloc_mark(State, t.block_index, t.current_run)} :
          /\ Becomes(r.s)
          /\ live' = IF Running(r.s) THEN live \cup {<<r.ptr, t.layout_size>>} ELSE live
          /\ last' = Call("alloc", <<t.layout_size, t.layout_align>>, r.ptr)
    /\ callers' = [callers EXCEPT ![cpu] = Caller_idle]
    /\ UNCHANGED <<stale, owned, calls>>

NextPair ==
    \/ \E cpu \in Callers, layout \in PairLayouts : SearchAlloc(cpu, layout[1], layout[2])
    \/ \E cpu \in Callers : MarkAlloc(cpu)

SpecPair == Init /\ [][NextPair]_vars

\* The blocks a caller selected and has not marked yet.
Selected(cpu) ==
    IF callers[cpu].pc = "mark"
    THEN (callers[cpu].block_index - callers[cpu].current_run)
             .. (callers[cpu].block_index - 1)
    ELSE {}

\* C35: when two alloc calls interleave, searching under the read lock and
\* marking under the write lock, they never select the same blocks: no block
\* is selected by two callers, and the assertion of the marking phase,
\* "attempting to allocate blocks that are already allocated", is not reached.
C35_InterleavedAllocsDisjoint ==
    /\ panic # AllocAssert
    /\ \A cpu \in Callers :
          \A other \in Callers \ {cpu} : Selected(cpu) \cap Selected(other) = {}

(* ------------------ C36: the order of the two locks ---------------------- *)

\* What each operation does to self.map and self.addressor, in the order of
\* its code: <<step, lock>> with the steps read, upgradeable_read, write and
\* upgrade, and drop for the end of a guard's life.
LockProgram(op) ==
    IF op = "alloc"
    THEN << <<"read", "map">>, <<"drop", "map">>, <<"write", "map">>,
            <<"write", "addressor">>, <<"drop", "addressor">>, <<"drop", "map">> >>
    ELSE IF op = "dealloc"
    THEN << <<"write", "map">>, <<"write", "addressor">>, <<"drop", "addressor">>,
            <<"drop", "map">> >>
    ELSE IF op = "alloc_to"
    THEN << <<"read", "map">>, <<"drop", "map">>, <<"write", "addressor">>,
            <<"write", "map">>, <<"drop", "map">>, <<"drop", "addressor">> >>
    ELSE IF op = "identity_map"
    THEN << <<"read", "map">>, <<"drop", "map">>, <<"write", "map">>,
            <<"write", "addressor">>, <<"drop", "addressor">>, <<"drop", "map">> >>
    ELSE << <<"upgradeable_read", "map">>, <<"write", "addressor">>,
            <<"drop", "addressor">>, <<"upgrade", "map">>, <<"drop", "map">> >>

LockOps == {"alloc", "dealloc", "alloc_to", "identity_map", "grow"}

\* A caller outside the allocator holds nothing.
Unlocked == [map |-> "none", addressor |-> "none"]

\* What a caller at a position of its operation holds.
Holding(cpu) == IF callers[cpu].pc = "locks" THEN callers[cpu].held ELSE Unlocked

\* spin::RwLock: a guard is granted when the guards the other callers hold
\* allow it; until then the caller spins.
Granted(cpu, step, lock) ==
    LET Others == {Holding(other)[lock] : other \in Callers \ {cpu}}
    IN  IF step = "read" THEN Others \cap {"write", "upgradeable_read"} = {}
        ELSE IF step = "upgradeable_read" THEN Others \cap {"write", "upgradeable_read"} = {}
        ELSE IF step = "write" THEN Others \subseteq {"none"}
        ELSE IF step = "upgrade" THEN Others \cap {"read", "write"} = {}
        ELSE TRUE

\* The guard a caller holds after a step.
AfterStep(held, step, lock) ==
    [held EXCEPT ![lock] = IF step = "drop" THEN "none"
                           ELSE IF step = "upgrade" THEN "write" ELSE step]

EnterLocks(cpu, op) ==
    /\ CanCall
    /\ callers[cpu].pc = "idle"
    /\ callers' = [callers EXCEPT ![cpu] = [pc |-> "locks", op |-> op, at |-> 1,
                                            held |-> Unlocked]]
    /\ calls' = calls + 1
    /\ UNCHANGED <<map, addressor, meta, memory_map, memory, content, panic,
                   profile, live, stale, owned, last>>

\* The caller's next step on a lock, once it is granted; after the last one
\* the operation returns.
StepLocks(cpu) ==
    /\ callers[cpu].pc = "locks"
    /\ \E t \in {callers[cpu]} :
       \E step \in {LockProgram(t.op)[t.at]} :
          /\ Granted(cpu, step[1], step[2])
          /\ callers' = [callers EXCEPT ![cpu] =
                            IF t.at = Len(LockProgram(t.op)) THEN Caller_idle
                            ELSE [t EXCEPT !.at = @ + 1,
                                           !.held = AfterStep(t.held, step[1], step[2])]]
          /\ last' = IF t.at = Len(LockProgram(t.op)) THEN Call(t.op, <<cpu>>, 0) ELSE last
    /\ UNCHANGED <<map, addressor, meta, memory_map, memory, content, panic,
                   profile, live, stale, owned, calls>>

NextLocks ==
    \/ \E cpu \in Callers, op \in LockOps : EnterLocks(cpu, op)
    \/ \E cpu \in Callers : StepLocks(cpu)

SpecLocks == Init /\ [][NextLocks]_vars

\* The caller holds one of the two locks and spins on the other.
WaitsFor(cpu, holds, wants) ==
    /\ callers[cpu].pc = "locks"
    /\ callers[cpu].held[holds] # "none"
    /\ LockProgram(callers[cpu].op)[callers[cpu].at][2] = wants
    /\ ~Granted(cpu, LockProgram(callers[cpu].op)[callers[cpu].at][1], wants)

\* C36: concurrent callers of alloc, dealloc, alloc_to, identity_map and grow
\* take the lock of the BlockPage map and the lock of the addressor in one
\* order: no state is reached in which one caller holds the map's lock and
\* waits for the addressor's while another holds the addressor's and waits
\* for the map's.
C36_NoLockOrderDeadlock ==
    \A cpu \in Callers :
       \A other \in Callers \ {cpu} :
          ~(WaitsFor(cpu, "addressor", "map") /\ WaitsFor(other, "map", "addressor"))

(* ------------------ C37: the extent of a mapped access ------------------- *)

\* size_of::<T>() for the types read and written: u8, u16, u32, u64.
TypeSizes == {1, 2, 4, 8}

\* read::<T>, read_mut::<T> and write::<T> on a mapped region: the access is
\* of size_of::<T>() bytes at the pointer.
CallMmioTyped(kind, self, offset, size) ==
    /\ CanCall
    /\ self \in Regions
    /\ \E r \in {MMIO_access(kind, mapped_offset(profile, self, offset))} :
          /\ Calling(kind, <<self, offset, size>>,
                     [result |-> r.result, accesses |-> r.accesses])
          /\ panic' = r.panic
    /\ UNCHANGED <<map, addressor, meta, memory_map, memory, content, profile,
                   live, stale, owned>>

NextMmioTyped ==
    \E kind \in {"read", "read_mut", "write"}, self \in Regions, offset \in Offsets,
       size \in TypeSizes : CallMmioTyped(kind, self, offset, size)

SpecMmioTyped == Init /\ [][NextMmioTyped]_vars

\* C37: whenever a mapped read or write of a value of type T returns Ok, the
\* whole access lies inside the mapped region: offset + size_of::<T>() is at
\* most frames.len() * 4096.
C37_AccessInsideRegion ==
    (last.op \in {"read", "read_mut", "write"} /\ last.ret.result = "Ok") =>
        LET end == word_add(last.args[2], Word(0, last.args[3]))
        IN  /\ ~end.overflow
            /\ ~word_lt(max_offset(last.args[1]), end.value)

(* ------------------ C38: dealloc of pages the caller placed -------------- *)

\* alloc_to with frames the caller locked: the caller keeps the frames and
\* holds the range of heap pages they were placed at.
PlaceAllocTo(start, len) ==
    /\ CanCall
    /\ \A frame \in start .. (start + len - 1) : frame \in owned
    /\ \E r \in {alloc_to(State, FrameIterator(start, len))} :
           /\ Becomes(r.s)
           /\ live' = IF Running(r.s) THEN live \cup {<<r.ptr, len * FRAME_SIZE>>} ELSE live
           /\ Calling("alloc_to", <<start, len>>, r.ptr)
    /\ UNCHANGED <<stale, owned>>

\* identity_map of a Reserved frame: the caller holds the page of the frame.
PlaceIdentityMap(frame, do_map) ==
    /\ CanCall
    /\ memory_map[frame] = "Reserved"
    /\ \E s \in {identity_map(State, frame, do_map)} :
           /\ Becomes(s)
           /\ live' = IF Running(s) THEN live \cup {<<frame * FRAME_SIZE, FRAME_SIZE>>}
                      ELSE live
    /\ Calling("identity_map", <<frame, IF do_map THEN 1 ELSE 0>>, 0)
    /\ UNCHANGED <<stale, owned>>

NextPlaced ==
    \/ \E frame \in Frames : CallLockFrame(frame)
    \/ \E start \in Frames, len \in 1 .. MaxRun : PlaceAllocTo(start, len)
    \/ \E frame \in IdentityFrames, do_map \in BOOLEAN : PlaceIdentityMap(frame, do_map)
    \/ \E layout \in {<<16, 16>>} : CallAlloc(layout[1], layout[2])
    \/ \E a \in live : CallDealloc(a[1], a[2])

SpecPlaced == Init /\ [][NextPlaced]_vars

\* C38: every frame that dealloc frees is a frame that alloc obtained with
\* lock_next for that page: a dealloc, also of a range whose pages were
\* placed by alloc_to or identity_map, changes the state of no frame the
\* caller owns and of no Reserved frame, and does not end in free_frame's
\* panic on such a frame.
C38_DeallocFreesOnlyAllocFrames ==
    [][(calls' = calls + 1 /\ last'.op = "dealloc") =>
          /\ \A frame \in owned : memory_map'[frame] = memory_map[frame]
          /\ \A frame \in Frames :
                memory_map[frame] = "Reserved" => memory_map'[frame] = "Reserved"
          /\ panic' # "attempted to reserve a non-free frame"]_vars

(* ------------------ C39: the two implementations side by side ------------ *)

Implementations == {"kernel", "libkernel"}

\* What one implementation made of a call: the pointer it returned, the
\* BlockPage sequence it left and the panic it ended in.
Outcome(r) == [ptr |-> r.ptr, map |-> r.s.map, panic |-> r.s.panic]

\* The kernel's alloc(size, 16) and libkernel's raw_alloc(size) from the same
\* heap; the heap goes on as the implementation `follow` left it.
CompareAlloc(size, follow) ==
    /\ CanCall
    /\ Cardinality(live) < MaxLive
    /\ \E k \in {alloc(State, size, MINIMUM_ALIGNMENT)}, l \in {raw_alloc(State, size)} :
       \E r \in {IF follow = "kernel" THEN k ELSE l} :
          /\ Becomes(r.s)
          /\ live' = IF Running(r.s) THEN live \cup {<<r.ptr, size>>} ELSE live
          /\ Calling("alloc", <<size, follow>>,
                     [kernel |-> Outcome(k), libkernel |-> Outcome(l)])
    /\ UNCHANGED <<stale, owned>>

\* The kernel's dealloc and libkernel's raw_dealloc of the same range from
\* the same heap.
CompareDealloc(ptr, size, follow) ==
    /\ CanCall
    /\ <<ptr, size>> \in live
    /\ \E k \in {dealloc(State, ptr, size)}, l \in {raw_dealloc(State, ptr, size)} :
       \E s \in {IF follow = "kernel" THEN k ELSE l} :
          /\ Becomes(s)
          /\ Calling("dealloc", <<ptr, size, follow>>,
                     [kernel |-> Outcome([ptr |-> 0, s |-> k]),
                      libkernel |-> Outcome([ptr |-> 0, s |-> l])])
    /\ live' = live \ {<<ptr, size>>}
    /\ stale' = {<<ptr, size>>}
    /\ UNCHANGED owned

NextBoth ==
    \/ \E size \in RawSizes, follow \in Implementations : CompareAlloc(size, follow)
    \/ \E a \in live, follow \in Implementations : CompareDealloc(a[1], a[2], follow)

SpecBoth == Init /\ [][NextBoth]_vars

\* The two sequences have the same bits: page for page the same, the longer
\* one empty past the end of the shorter.
SameBitmap(a, b) ==
    \A map_index \in 0 .. (IF Len(a) > Len(b) THEN Len(a) ELSE Len(b)) - 1 :
        PageAt(a, map_index) = PageAt(b, map_index)

BothReturned == last.ret.kernel.panic = "" /\ last.ret.libkernel.panic = ""

\* C39: started from the same BlockPage sequence, libkernel's raw_alloc(size)
\* and the kernel's alloc(size, 16) return the same block range and leave
\* the same bitmap, and raw_dealloc and dealloc of a range leave the same
\* bitmap, for every size and every position of the run.
C39_ImplementationsAgree ==
    (last.op \in {"alloc", "dealloc"} /\ BothReturned) =>
        /\ last.ret.kernel.ptr = last.ret.libkernel.ptr
        /\ SameBitmap(last.ret.kernel.map, last.ret.libkernel.map)

====
